---- MODULE Spec2Model ----
(***************************************************************************)
(* Model of the credential vault of gmail-llm: CredentialManager           *)
(* (credential_manager.py) and its caller EncryptedOAuthManager            *)
(* (auth/encrypted_oauth_manager.py).                                      *)
(*                                                                         *)
(* Files are kept in a map from paths to contents.  A path is the sequence *)
(* of its characters, so that the path arithmetic of the code (string      *)
(* concatenation, str.replace) is computed as the code computes it.  A     *)
(* file's content is a sequence of chunks of bytes; b"" is <<>>.           *)
(* Cryptography is symbolic: a derived key is the pair (password, salt), a *)
(* Fernet token names the key and the IV it was sealed with, and opening   *)
(* it with any other key raises InvalidToken.                              *)
(***************************************************************************)
EXTENDS Integers, Sequences, FiniteSets, TLC

VARIABLES
    encrypted_file,         \* CredentialManager.encrypted_file (the base path)
    fs,                     \* the filesystem: path -> file
    password,               \* EncryptedOAuthManager.password (session cache)
    temp_credentials_file,  \* EncryptedOAuthManager.temp_credentials_file
    removals,               \* how often the salt file was removed by hand
    pc,                     \* the caller: "idle", or "returned" from a call
    ret,                    \* the call returned from: operation, arguments, outcome
    log,                    \* the log records that call emitted
    proc,                   \* the calls in progress in concurrent processes
    _factory,               \* gmail_factory._factory (module global)
    _instance,              \* GmailConnectorFactory._instance
    _lock,                  \* GmailConnectorFactory._lock: the thread holding it
    _connector,             \* GmailConnectorFactory._connector of each instance
    connectors,             \* the GmailConnector objects created so far
    thread,                 \* the threads calling the factory: position, locals
    manager                 \* the EncryptedOAuthManager of each server thread

factory_vars == <<_factory, _instance, _lock, _connector, connectors, thread>>

vars == <<encrypted_file, fs, password, temp_credentials_file, removals, pc, ret, log,
          proc, factory_vars, manager>>

----------------------------------------------------------------------------
(* Bounds of the model *)

\* The random values the model names.  os.urandom never gives bytes it gave
\* before (but with probability 2^-128), and random values are only ever
\* compared for equality, so a draw is modelled as the least value of a
\* pool that differs from the values it may be compared with.
\* IVs that Fernet.encrypt may draw: the new token is compared with the one
\* it replaces.
MaxNonce == 2
\* Salts that os.urandom(16) may give: the new salt is compared with the
\* salts of the keys that sealed the tokens on disk.
MaxSalt == 3
\* How often the salt file is removed by hand.
MaxRemovals == 1

----------------------------------------------------------------------------
(* Values *)

NoneVal == "None"
Passwords == {"pw1", "pw2"}

\* Optional values: Python's None is <<>>, a value v is <<v>>.
None == <<>>
Some(v) == <<v>>

----------------------------------------------------------------------------
(* Paths *)

DotEncrypted == <<".", "e", "n", "c", "r", "y", "p", "t", "e", "d">>
TokenDotEncrypted == <<"_", "t", "o", "k", "e", "n">> \o DotEncrypted
DotSalt == <<".", "s", "a", "l", "t">>
DotJson == <<".", "j", "s", "o", "n">>
Credentials == <<"c", "r", "e", "d", "e", "n", "t", "i", "a", "l", "s">>

\* config.py: the default base path, and one a user may set in
\* GMAIL_CREDENTIALS_PATH.
DefaultBase == Credentials \o DotEncrypted
EnvBase == <<"v", "a", "u", "l", "t", ".", "b", "i", "n">>
BasePaths == {DefaultBase, EnvBase}

\* 'temp_credentials.json'
TempFile == <<"t", "e", "m", "p", "_">> \o Credentials \o DotJson

\* Source files handed to encrypt_credentials.
SrcA == Credentials \o DotJson
SrcB == <<"b">> \o DotJson
SrcBad == <<"b", "a", "d">> \o DotJson
SrcMissing == <<"n", "o">> \o DotJson
SourcePaths == {SrcA, SrcB, SrcBad, SrcMissing}

IsPrefix(p, s) == Len(p) <= Len(s) /\ SubSeq(s, 1, Len(p)) = p

\* str.replace(old, new): every non-overlapping occurrence, leftmost first.
RECURSIVE Replace(_, _, _)
Replace(s, old, new) ==
    IF Len(s) < Len(old) \/ Len(old) = 0 THEN s
    ELSE IF IsPrefix(old, s)
         THEN new \o Replace(SubSeq(s, Len(old) + 1, Len(s)), old, new)
         ELSE <<Head(s)>> \o Replace(Tail(s), old, new)

SaltFile(base) == base \o DotSalt
TokenPath(base) == Replace(base, DotEncrypted, TokenDotEncrypted)

salt_file == SaltFile(encrypted_file)
encrypted_token_path == TokenPath(encrypted_file)

AllPaths ==
    SourcePaths \cup {TempFile}
    \cup BasePaths
    \cup {SaltFile(b) : b \in BasePaths}
    \cup {TokenPath(b) : b \in BasePaths}

----------------------------------------------------------------------------
(* Files and bytes *)

NoFile == [exists |-> FALSE, data |-> <<>>]
File(d) == [exists |-> TRUE, data |-> d]

\* os.urandom(16)
Urandom(n) == <<[kind |-> "random", id |-> n]>>
\* the text of a JSON document; fmt tells how it is laid out
JsonText(doc, fmt) == <<[kind |-> "json", doc |-> doc, fmt |-> fmt]>>
\* text that is no JSON
Garbage == <<[kind |-> "text", id |-> "not json"]>>
\* bytes that are no UTF-8 text
RawBytes == <<[kind |-> "raw", id |-> "bytes"]>>

\* pickle.dumps(creds)
Pickle(creds) == <<[kind |-> "pickle", obj |-> creds]>>

\* A log record: its level, its message, and the exception type a handler
\* formats into it with type(e).__name__ ("": none).
L(level, msg) == [level |-> level, msg |-> msg, detail |-> ""]
LogExc(level, msg, exc) == [level |-> level, msg |-> msg, detail |-> exc]

\* The chunks of the files of f, and the random values they hold.
Chunks(f) == UNION {{f[p].data[i] : i \in 1..Len(f[p].data)} : p \in AllPaths}
SaltIds(data) == {data[i].id : i \in {j \in 1..Len(data) : data[j].kind = "random"}}
UsedSalts(f) ==
    UNION {IF c.kind = "fernet" THEN SaltIds(c.key.salt) ELSE SaltIds(<<c>>)
           : c \in Chunks(f)}
DataIVs(data) == {data[i].iv : i \in {j \in 1..Len(data) : data[j].kind = "fernet"}}
Least(S) == CHOOSE n \in S : \A m \in S : n <= m
\* What os.urandom(16) gives next, and the IV Fernet.encrypt draws next.
FreshSalt(f) == Least((1..MaxSalt) \ UsedSalts(f))
\* Variant of the IV draw in which Fernet.encrypt takes the same IV on
\* every call.
FixedIV(f, path) == 1
FreshIV(f, path) == Least((1..MaxNonce) \ DataIVs(f[path].data))

----------------------------------------------------------------------------
(* Faults: what the environment may do to one call.  A call meets at most  *)
(* one: an I/O error (OSError) or an interrupt (KeyboardInterrupt) at one  *)
(* of its points.                                                          *)

NoFault == [at |-> "none", exc |-> "none"]
OSErrorAt(points) == [at : points, exc : {"OSError"}]
InterruptAt(points) == [at : points, exc : {"KeyboardInterrupt"}]

\* Exceptions that `except Exception` catches; KeyboardInterrupt is a
\* BaseException and passes through it.
IsException(exc) == exc \notin {"none", "KeyboardInterrupt"}

\* open(path, 'rb' or 'r') and read()
ReadFile(f, path, point, fault) ==
    IF ~f[path].exists THEN [exc |-> "FileNotFoundError", data |-> <<>>]
    ELSE IF fault.at = point THEN [exc |-> fault.exc, data |-> <<>>]
    ELSE [exc |-> "none", data |-> f[path].data]

\* Variant of WriteFile that opens in append mode: what the file held stays
\* in front of the new data.
WriteFileAppend(f, path, data, openPoint, writePoint, fault) ==
    IF fault.at = openPoint THEN [exc |-> fault.exc, fs |-> f]
    ELSE IF fault.at = writePoint
    THEN [exc |-> fault.exc, fs |-> [f EXCEPT ![path] = File(f[path].data)]]
    ELSE [exc |-> "none", fs |-> [f EXCEPT ![path] = File(f[path].data \o data)]]

\* open(path, 'wb' or 'w') and write(data): open creates or truncates the
\* file, write fills it.
WriteFile(f, path, data, openPoint, writePoint, fault) ==
    IF fault.at = openPoint THEN [exc |-> fault.exc, fs |-> f]
    ELSE IF fault.at = writePoint
    THEN [exc |-> fault.exc, fs |-> [f EXCEPT ![path] = File(<<>>)]]
    ELSE [exc |-> "none", fs |-> [f EXCEPT ![path] = File(data)]]

----------------------------------------------------------------------------
(* Library functions *)

\* bytes.decode(): UTF-8
Decode(data) ==
    IF \E i \in 1..Len(data) : data[i].kind \in {"raw", "random", "pickle"}
    THEN [exc |-> "UnicodeDecodeError", val |-> <<>>]
    ELSE [exc |-> "none", val |-> data]

\* json.load / json.loads
json_loads(text) ==
    IF Len(text) = 1 /\ text[1].kind = "json"
    THEN [exc |-> "none", val |-> text[1].doc]
    ELSE [exc |-> "JSONDecodeError", val |-> NoneVal]

\* Variant of json.dumps that serializes an empty document whatever it is
\* given.
json_dumps_empty(doc) == <<[kind |-> "json", doc |-> "{}", fmt |-> "dumps"]>>

\* json.dumps(doc), and json.dump(doc, f, indent=2)
json_dumps(doc) == JsonText(doc, "dumps")
json_dump_indent2(doc) == JsonText(doc, "indent2")

\* Fernet(key).encrypt(data), with the IV it drew
FernetEncrypt(key, iv, data) ==
    <<[kind |-> "fernet", key |-> key, iv |-> iv, pt |-> data]>>

\* Variant of Fernet.decrypt that tells bytes that are no Fernet token
\* (ValueError) from a token sealed with another key (InvalidToken).
FernetDecrypt_tells_malformed(key, token) ==
    IF ~(Len(token) = 1 /\ token[1].kind = "fernet")
    THEN [exc |-> "ValueError", val |-> <<>>]
    ELSE IF token[1].key = key THEN [exc |-> "none", val |-> token[1].pt]
    ELSE [exc |-> "InvalidToken", val |-> <<>>]

\* Fernet(key).decrypt(token): InvalidToken unless token is one whole
\* Fernet token sealed with key.
FernetDecrypt(key, token) ==
    IF Len(token) = 1 /\ token[1].kind = "fernet" /\ token[1].key = key
    THEN [exc |-> "none", val |-> token[1].pt]
    ELSE [exc |-> "InvalidToken", val |-> <<>>]

----------------------------------------------------------------------------
(* CredentialManager.  A method is modelled stage by stage: each stage is   *)
(* an operator that takes what the stages before it produced.              *)

\* Variant of _derive_key in which the password does not enter the key.
_derive_key_ignores_password(pw, salt) == [password |-> "", salt |-> salt]

\* Variant of _derive_key on a vault that keeps the password of its last
\* call and derives the key from it.
_derive_key_keeps_last_password(pw, salt) ==
    [password |-> IF ret.password \in Passwords THEN ret.password ELSE pw,
     salt |-> salt]

\* PBKDF2-HMAC-SHA256 of the password under the salt, base64 encoded.
_derive_key(pw, salt) == [password |-> pw, salt |-> salt]

\* Lines 67-72: write the salt drawn and return it.
_get_salt_create(f, salt, fault) ==
    LET wr == WriteFile(f, salt_file, salt, "open_salt", "write_salt", fault)
    IN  [fs |-> wr.fs, exc |-> wr.exc, val |-> salt,
         log |-> <<L("info", "generating new salt")>>]

\* Variant of _get_salt without the os.path.exists test: a new salt is
\* drawn and written on every call.
_get_salt_regenerates(f, fault) == _get_salt_create(f, Urandom(FreshSalt(f)), fault)

_get_salt(f, fault) ==
    IF f[salt_file].exists
    THEN LET rd == ReadFile(f, salt_file, "read_salt", fault)
         IN  [fs |-> f, exc |-> rd.exc, val |-> rd.data,
              log |-> <<L("debug", "loading existing salt")>>]
    ELSE _get_salt_create(f, Urandom(FreshSalt(f)), fault)

\* What a call did: the files after it, what it returned (when it raised
\* nothing), the exception met inside it ("none": none), the exception it
\* raised to its caller ("none": it returned), its log, the salt _get_salt
\* gave it (None when _get_salt was not called or raised), and whether it
\* prompted for the password.
Outcome(f, result, exc, raised, lg, salt, prompted) ==
    [fs |-> f, result |-> result, exc |-> exc, raised |-> raised, log |-> lg,
     salt |-> salt, prompted |-> prompted]

\* A try block left by exception exc ("none": by a return of result).
Body(f, exc, result, lg, salt, prompted) ==
    [fs |-> f, exc |-> exc, result |-> result, log |-> lg, salt |-> salt,
     prompted |-> prompted]

\* `if password is None: password = getpass.getpass(...)`: the password
\* typed, unless the prompt is interrupted.
Getpass(pwarg, typed, fault) ==
    IF pwarg # NoneVal THEN [exc |-> "none", val |-> pwarg, prompted |-> FALSE]
    ELSE IF fault.at = "getpass" THEN [exc |-> fault.exc, val |-> NoneVal, prompted |-> TRUE]
    ELSE [exc |-> "none", val |-> typed, prompted |-> TRUE]

\* encrypt_credentials, lines 101-114: with the salt gs and the password
\* gp, seal the document and save the artifact.
encrypt_credentials_save(gs, gp, credentials_data, lg, fault) ==
    LET key == _derive_key(gp.val, gs.val)
        encrypted_data == FernetEncrypt(key, FreshIV(gs.fs, encrypted_file),
                                        json_dumps(credentials_data))
        l3 == lg \o <<L("debug", "deriving encryption key"),
                      L("info", "encrypting credentials data"),
                      L("info", "saving encrypted credentials")>>
        wr == WriteFile(gs.fs, encrypted_file, encrypted_data,
                        "open_artifact", "write_artifact", fault)
    IN
    IF wr.exc # "none"
    THEN Body(wr.fs, wr.exc, "False", l3, Some(gs.val), gp.prompted)
    ELSE Body(wr.fs, "none", "True",
              l3 \o <<L("info", "credentials encrypted successfully")>>,
              Some(gs.val), gp.prompted)

\* encrypt_credentials, line 100: what _get_salt gave.
encrypt_credentials_salt(gs, gp, credentials_data, lg, fault) ==
    IF gs.exc # "none"
    THEN Body(gs.fs, gs.exc, "False", lg \o gs.log, None, gp.prompted)
    ELSE encrypt_credentials_save(gs, gp, credentials_data, lg \o gs.log, fault)

\* encrypt_credentials, lines 90-100: with the password gp, read the source.
encrypt_credentials_read(f, credentials_path, gp, fault) ==
    LET l1 == <<L("info", "reading credentials")>>
        rd == ReadFile(f, credentials_path, "read_source", fault)
        credentials_data == json_loads(rd.data)
    IN
    IF gp.exc # "none" THEN Body(f, gp.exc, "False", <<>>, None, gp.prompted)
    ELSE IF rd.exc # "none" THEN Body(f, rd.exc, "False", l1, None, gp.prompted)
    ELSE IF credentials_data.exc # "none"
    THEN Body(f, credentials_data.exc, "False", l1, None, gp.prompted)
    ELSE encrypt_credentials_salt(_get_salt(f, fault), gp, credentials_data.val,
                                  l1, fault)

encrypt_credentials_try(f, credentials_path, pwarg, typed, fault) ==
    IF ~f[credentials_path].exists
    THEN Body(f, "none", "False", <<L("error", "credentials file not found")>>,
              None, FALSE)
    ELSE encrypt_credentials_read(f, credentials_path,
                                  Getpass(pwarg, typed, fault), fault)

\* Variant of the handlers of encrypt_credentials without the last one
\* (`except Exception`): only FileNotFoundError and JSONDecodeError are
\* caught.
encrypt_credentials_catches_only_named(b) ==
    IF b.exc = "none"
    THEN Outcome(b.fs, b.result, "none", "none", b.log, b.salt, b.prompted)
    ELSE IF b.exc = "FileNotFoundError"
    THEN Outcome(b.fs, "False", b.exc, "none",
                 b.log \o <<L("error", "file not found")>>, b.salt, b.prompted)
    ELSE IF b.exc = "JSONDecodeError"
    THEN Outcome(b.fs, "False", b.exc, "none",
                 b.log \o <<L("error", "invalid JSON in credentials file")>>,
                 b.salt, b.prompted)
    ELSE Outcome(b.fs, NoneVal, b.exc, b.exc, b.log, b.salt, b.prompted)

\* The except handlers of encrypt_credentials (lines 116-124) on the try
\* block b.
encrypt_credentials_handlers(b) ==
    IF b.exc = "none"
    THEN Outcome(b.fs, b.result, "none", "none", b.log, b.salt, b.prompted)
    ELSE IF b.exc = "FileNotFoundError"
    THEN Outcome(b.fs, "False", b.exc, "none",
                 b.log \o <<L("error", "file not found")>>, b.salt, b.prompted)
    ELSE IF b.exc = "JSONDecodeError"
    THEN Outcome(b.fs, "False", b.exc, "none",
                 b.log \o <<L("error", "invalid JSON in credentials file")>>,
                 b.salt, b.prompted)
    ELSE IF IsException(b.exc)
    THEN Outcome(b.fs, "False", b.exc, "none",
                 b.log \o <<LogExc("error", "failed to encrypt credentials", b.exc)>>,
                 b.salt, b.prompted)
    ELSE Outcome(b.fs, NoneVal, b.exc, b.exc, b.log, b.salt, b.prompted)

encrypt_credentials(f, credentials_path, pwarg, typed, fault) ==
    encrypt_credentials_handlers(
        encrypt_credentials_try(f, credentials_path, pwarg, typed, fault))

\* decrypt_credentials, lines 150-165: with the salt gs and the password
\* gp, read the artifact, open it and parse the document.
decrypt_credentials_open(gs, gp, fault) ==
    LET key == _derive_key(gp.val, gs.val)
        l1 == gs.log \o <<L("debug", "deriving encryption key"),
                          L("info", "reading encrypted credentials")>>
        rd == ReadFile(gs.fs, encrypted_file, "read_artifact", fault)
        l2 == l1 \o <<L("info", "decrypting credentials data")>>
        decrypted_data == FernetDecrypt(key, rd.data)
        text == Decode(decrypted_data.val)
        credentials_data == json_loads(text.val)
    IN
    IF gs.exc # "none" THEN Body(gs.fs, gs.exc, None, gs.log, None, gp.prompted)
    ELSE IF rd.exc # "none"
    THEN Body(gs.fs, rd.exc, None, l1, Some(gs.val), gp.prompted)
    ELSE IF decrypted_data.exc # "none"
    THEN Body(gs.fs, decrypted_data.exc, None, l2, Some(gs.val), gp.prompted)
    ELSE IF text.exc # "none"
    THEN Body(gs.fs, text.exc, None, l2, Some(gs.val), gp.prompted)
    ELSE IF credentials_data.exc # "none"
    THEN Body(gs.fs, credentials_data.exc, None, l2, Some(gs.val), gp.prompted)
    ELSE Body(gs.fs, "none", Some(credentials_data.val),
              l2 \o <<L("info", "credentials decrypted successfully")>>,
              Some(gs.val), gp.prompted)

\* decrypt_credentials, lines 145-150: with the password gp.
decrypt_credentials_password(f, gp, fault) ==
    IF gp.exc # "none" THEN Body(f, gp.exc, None, <<>>, None, gp.prompted)
    ELSE decrypt_credentials_open(_get_salt(f, fault), gp, fault)

\* Variant of decrypt_credentials without the test for the salt file
\* (lines 141-143): _get_salt is reached with no salt file on disk.
decrypt_credentials_try_without_salt_test(f, pwarg, typed, fault) ==
    IF ~f[encrypted_file].exists
    THEN Body(f, "none", None,
              <<L("error", "encrypted credentials file not found")>>, None, FALSE)
    ELSE decrypt_credentials_password(f, Getpass(pwarg, typed, fault), fault)

decrypt_credentials_try(f, pwarg, typed, fault) ==
    IF ~f[encrypted_file].exists
    THEN Body(f, "none", None,
              <<L("error", "encrypted credentials file not found")>>, None, FALSE)
    ELSE IF ~f[salt_file].exists
    THEN Body(f, "none", None, <<L("error", "salt file not found")>>, None, FALSE)
    ELSE decrypt_credentials_password(f, Getpass(pwarg, typed, fault), fault)

\* Variant of the handlers of decrypt_credentials without the last one
\* (`except Exception`): InvalidToken and the like reach the caller.
decrypt_credentials_catches_only_named(b) ==
    IF b.exc = "none"
    THEN Outcome(b.fs, b.result, "none", "none", b.log, b.salt, b.prompted)
    ELSE IF b.exc = "FileNotFoundError"
    THEN Outcome(b.fs, None, b.exc, "none",
                 b.log \o <<L("error", "file not found")>>, b.salt, b.prompted)
    ELSE IF b.exc = "JSONDecodeError"
    THEN Outcome(b.fs, None, b.exc, "none",
                 b.log \o <<L("error", "invalid JSON in decrypted data")>>,
                 b.salt, b.prompted)
    ELSE Outcome(b.fs, None, b.exc, b.exc, b.log, b.salt, b.prompted)

\* The except handlers of decrypt_credentials (lines 167-175) on the try
\* block b.
decrypt_credentials_handlers(b) ==
    IF b.exc = "none"
    THEN Outcome(b.fs, b.result, "none", "none", b.log, b.salt, b.prompted)
    ELSE IF b.exc = "FileNotFoundError"
    THEN Outcome(b.fs, None, b.exc, "none",
                 b.log \o <<L("error", "file not found")>>, b.salt, b.prompted)
    ELSE IF b.exc = "JSONDecodeError"
    THEN Outcome(b.fs, None, b.exc, "none",
                 b.log \o <<L("error", "invalid JSON in decrypted data")>>,
                 b.salt, b.prompted)
    ELSE IF IsException(b.exc)
    THEN Outcome(b.fs, None, b.exc, "none",
                 b.log \o <<LogExc("error", "failed to decrypt credentials", b.exc)>>,
                 b.salt, b.prompted)
    ELSE Outcome(b.fs, None, b.exc, b.exc, b.log, b.salt, b.prompted)

decrypt_credentials(f, pwarg, typed, fault) ==
    decrypt_credentials_handlers(decrypt_credentials_try(f, pwarg, typed, fault))

\* Variant of create_temp_credentials_file that opens the temp file before
\* it looks at what decrypt_credentials gave.
create_temp_credentials_file_write_opens_first(d, fault) ==
    IF d.raised # "none" THEN d
    ELSE [d EXCEPT !.fs = [d.fs EXCEPT ![TempFile] = File(<<>>)], !.result = None]

\* create_temp_credentials_file, lines 189-202: with d, what
\* decrypt_credentials did.
create_temp_credentials_file_write(d, fault) ==
    LET temp_file == TempFile
        l1 == d.log \o <<L("info", "creating temporary credentials file")>>
        wr == WriteFile(d.fs, temp_file, json_dump_indent2(d.result[1]),
                        "open_temp", "write_temp", fault)
    IN
    IF d.raised # "none" THEN d
    ELSE IF d.result = None THEN d
    ELSE IF wr.exc = "none"
    THEN Outcome(wr.fs, Some(temp_file), "none", "none", l1, d.salt, d.prompted)
    ELSE IF IsException(wr.exc)
    THEN Outcome(wr.fs, None, wr.exc, "none",
                 l1 \o <<LogExc("error", "failed to create temporary credentials file",
                              wr.exc)>>,
                 d.salt, d.prompted)
    ELSE Outcome(wr.fs, None, wr.exc, wr.exc, l1, d.salt, d.prompted)

create_temp_credentials_file(f, pwarg, typed, fault) ==
    create_temp_credentials_file_write(decrypt_credentials(f, pwarg, typed, fault),
                                       fault)

\* Variant of cleanup_temp_file without the try block: an error of
\* os.remove goes to the caller.
cleanup_temp_file_propagates(f, temp_file, fault) ==
    IF ~f[temp_file].exists
    THEN Outcome(f, None, "none", "none", <<>>, None, FALSE)
    ELSE IF fault.at # "remove"
    THEN Outcome([f EXCEPT ![temp_file] = NoFile], None, "none", "none",
                 <<L("info", "removing temporary credentials file")>>, None, FALSE)
    ELSE Outcome(f, None, fault.exc, fault.exc,
                 <<L("info", "removing temporary credentials file")>>, None, FALSE)

cleanup_temp_file(f, temp_file, fault) ==
    IF ~f[temp_file].exists
    THEN Outcome(f, None, "none", "none", <<>>, None, FALSE)
    ELSE
    LET l1 == <<L("info", "removing temporary credentials file")>> IN
    IF fault.at # "remove"
    THEN Outcome([f EXCEPT ![temp_file] = NoFile], None, "none", "none", l1, None, FALSE)
    ELSE IF IsException(fault.exc)
    THEN Outcome(f, None, fault.exc, "none",
                 l1 \o <<L("error", "failed to remove temporary file")>>, None, FALSE)
    ELSE Outcome(f, None, fault.exc, fault.exc, l1, None, FALSE)

\* encrypt_token, lines 235-250: with the salt gs and the password gp, seal
\* the token bytes and save the artifact.
encrypt_token_save(gs, gp, token_data, fault) ==
    LET key == _derive_key(gp.val, gs.val)
        encrypted_data == FernetEncrypt(key, FreshIV(gs.fs, encrypted_token_path),
                                        token_data)
        l1 == gs.log \o <<L("debug", "deriving encryption key"),
                          L("info", "encrypting token data"),
                          L("info", "saving encrypted token")>>
        wr == WriteFile(gs.fs, encrypted_token_path, encrypted_data,
                        "open_artifact", "write_artifact", fault)
    IN
    IF gs.exc # "none" THEN Body(gs.fs, gs.exc, "False", gs.log, None, gp.prompted)
    ELSE IF wr.exc # "none"
    THEN Body(wr.fs, wr.exc, "False", l1, Some(gs.val), gp.prompted)
    ELSE Body(wr.fs, "none", "True",
              l1 \o <<L("info", "token encrypted successfully")>>,
              Some(gs.val), gp.prompted)

\* encrypt_token, lines 230-235: with the password gp.
encrypt_token_password(f, token_data, gp, fault) ==
    IF gp.exc # "none" THEN Body(f, gp.exc, "False", <<>>, None, gp.prompted)
    ELSE encrypt_token_save(_get_salt(f, fault), gp, token_data, fault)

encrypt_token_try(f, token_data, pwarg, typed, fault) ==
    encrypt_token_password(f, token_data, Getpass(pwarg, typed, fault), fault)

\* The except handler of encrypt_token (lines 252-254) on the try block b.
encrypt_token_handlers(b) ==
    IF b.exc = "none"
    THEN Outcome(b.fs, b.result, "none", "none", b.log, b.salt, b.prompted)
    ELSE IF IsException(b.exc)
    THEN Outcome(b.fs, "False", b.exc, "none",
                 b.log \o <<LogExc("error", "failed to encrypt token", b.exc)>>,
                 b.salt, b.prompted)
    ELSE Outcome(b.fs, NoneVal, b.exc, b.exc, b.log, b.salt, b.prompted)

encrypt_token(f, token_data, pwarg, typed, fault) ==
    encrypt_token_handlers(encrypt_token_try(f, token_data, pwarg, typed, fault))

\* decrypt_token, lines 281-295: with the salt gs and the password gp, read
\* the artifact and open it.
decrypt_token_open(gs, gp, fault) ==
    LET key == _derive_key(gp.val, gs.val)
        l1 == gs.log \o <<L("debug", "deriving encryption key"),
                          L("info", "reading encrypted token")>>
        rd == ReadFile(gs.fs, encrypted_token_path, "read_artifact", fault)
        l2 == l1 \o <<L("info", "decrypting token data")>>
        decrypted_data == FernetDecrypt(key, rd.data)
    IN
    IF gs.exc # "none" THEN Body(gs.fs, gs.exc, None, gs.log, None, gp.prompted)
    ELSE IF rd.exc # "none"
    THEN Body(gs.fs, rd.exc, None, l1, Some(gs.val), gp.prompted)
    ELSE IF decrypted_data.exc # "none"
    THEN Body(gs.fs, decrypted_data.exc, None, l2, Some(gs.val), gp.prompted)
    ELSE Body(gs.fs, "none", Some(decrypted_data.val),
              l2 \o <<L("info", "token decrypted successfully")>>,
              Some(gs.val), gp.prompted)

\* decrypt_token, lines 276-281: with the password gp.
decrypt_token_password(f, gp, fault) ==
    IF gp.exc # "none" THEN Body(f, gp.exc, None, <<>>, None, gp.prompted)
    ELSE decrypt_token_open(_get_salt(f, fault), gp, fault)

\* Variant of decrypt_token that logs the missing token artifact as an
\* error, as decrypt_credentials logs its missing artifact.
decrypt_token_try_missing_is_error(f, pwarg, typed, fault) ==
    IF ~f[encrypted_token_path].exists
    THEN Body(f, "none", None, <<L("error", "encrypted token file not found")>>,
              None, FALSE)
    ELSE IF ~f[salt_file].exists
    THEN Body(f, "none", None, <<L("error", "salt file not found")>>, None, FALSE)
    ELSE decrypt_token_password(f, Getpass(pwarg, typed, fault), fault)

decrypt_token_try(f, pwarg, typed, fault) ==
    IF ~f[encrypted_token_path].exists
    THEN Body(f, "none", None, <<L("info", "encrypted token file not found")>>,
              None, FALSE)
    ELSE IF ~f[salt_file].exists
    THEN Body(f, "none", None, <<L("error", "salt file not found")>>, None, FALSE)
    ELSE decrypt_token_password(f, Getpass(pwarg, typed, fault), fault)

\* The except handlers of decrypt_token (lines 297-302) on the try block b.
decrypt_token_handlers(b) ==
    IF b.exc = "none"
    THEN Outcome(b.fs, b.result, "none", "none", b.log, b.salt, b.prompted)
    ELSE IF b.exc = "FileNotFoundError"
    THEN Outcome(b.fs, None, b.exc, "none",
                 b.log \o <<L("info", "encrypted token file not found")>>,
                 b.salt, b.prompted)
    ELSE IF IsException(b.exc)
    THEN Outcome(b.fs, None, b.exc, "none",
                 b.log \o <<LogExc("error", "failed to decrypt token", b.exc)>>,
                 b.salt, b.prompted)
    ELSE Outcome(b.fs, None, b.exc, b.exc, b.log, b.salt, b.prompted)

\* Variant of decrypt_token that tests its result for truth (`if not
\* decrypted_data: return None`): empty token bytes come back as None.
decrypt_token_falsy_is_none(f, pwarg, typed, fault) ==
    LET o == decrypt_token_handlers(decrypt_token_try(f, pwarg, typed, fault)) IN
    IF o.result = Some(<<>>) THEN [o EXCEPT !.result = None] ELSE o

\* Variant of decrypt_token that looks for the salt file before it looks
\* for the token artifact.
decrypt_token_checks_salt_first(f, pwarg, typed, fault) ==
    IF ~f[salt_file].exists
    THEN Outcome(f, None, "none", "none", <<L("error", "salt file not found")>>,
                 None, FALSE)
    ELSE decrypt_token_handlers(decrypt_token_try(f, pwarg, typed, fault))

decrypt_token(f, pwarg, typed, fault) ==
    decrypt_token_handlers(decrypt_token_try(f, pwarg, typed, fault))

----------------------------------------------------------------------------
(* The faults each operation may meet: an I/O error where it reads or      *)
(* writes a file, an interrupt where it waits (the prompt, a write).       *)

EncryptFaults ==
    {NoFault}
    \cup OSErrorAt({"read_source", "write_salt", "open_artifact", "write_artifact"})
    \cup InterruptAt({"write_artifact"})
EncryptTokenFaults ==
    {NoFault}
    \cup OSErrorAt({"write_salt", "open_artifact", "write_artifact"})
    \cup InterruptAt({"write_artifact"})
DecryptFaults == {NoFault} \cup OSErrorAt({"read_salt", "read_artifact"})
TempFaults == DecryptFaults \cup OSErrorAt({"write_temp"}) \cup InterruptAt({"write_temp"})
CleanupFaults == {NoFault} \cup OSErrorAt({"remove"})
PromptFaults == {NoFault} \cup InterruptAt({"getpass"})

----------------------------------------------------------------------------
(* EncryptedOAuthManager.  authenticate is the set of the outcomes it may  *)
(* have: the faults its calls meet and the answers of Google's servers are *)
(* not the caller's to choose.                                             *)

\* google.oauth2.credentials.Credentials: the access token (id), whether a
\* refresh token came with it, and whether the access token has expired.
CredIds == {"tokA", "tokB"}
FreshCreds == [id : CredIds, refresh_token : BOOLEAN, expired : {FALSE}]
Valid(creds) == ~creds.expired

\* pickle.loads(token_data)
pickle_loads(token_data) ==
    IF Len(token_data) = 1 /\ token_data[1].kind = "pickle"
    THEN [exc |-> "none", val |-> token_data[1].obj]
    ELSE [exc |-> "UnpicklingError", val |-> NoneVal]

\* How often the vault call with outcome o prompted for the password.
Prompts(o) == IF o.prompted THEN 1 ELSE 0

\* What authenticate did: as Outcome, with the manager's fields after it
\* (password, temp_credentials_file, credentials) and whether the call
\* materialized the temp file (create_temp_credentials_file gave it a path),
\* and how often getpass prompted, in authenticate and in its vault calls.
AuthOutcome(f, result, raised, lg, pw, tcf, creds, materialized, prompts) ==
    [fs |-> f, result |-> result, raised |-> raised, log |-> lg,
     password |-> pw, temp_credentials_file |-> tcf, credentials |-> creds,
     materialized |-> materialized, prompts |-> prompts]

\* Line 97, logged after the cleanup when authenticate returns True.
AuthSuccessfulLog(result) ==
    IF result = "True"
    THEN <<L("info", "encrypted OAuth authentication successful")>>
    ELSE <<>>

\* Lines 94-98 and 104-106: with c, what cleanup_temp_file did.
AuthCleaned(c, result, lg, pw, tcf, creds, materialized, prompts) ==
    IF c.raised # "none"
    THEN AuthOutcome(c.fs, NoneVal, c.raised, lg \o c.log, pw, tcf, creds,
                     materialized, prompts)
    ELSE AuthOutcome(c.fs, result, "none",
                     lg \o c.log \o AuthSuccessfulLog(result), pw, None, creds,
                     materialized, prompts)

\* Lines 92-98 and 102-106: clean up the temp file if one is recorded, and
\* return.
AuthReturn(f, result, lg, pw, tcf, creds, materialized, prompts) ==
    IF tcf = None
    THEN {AuthOutcome(f, result, "none", lg \o AuthSuccessfulLog(result), pw, None,
                      creds, materialized, prompts)}
    ELSE {AuthCleaned(cleanup_temp_file(f, tcf[1], fault), result, lg, pw, tcf,
                      creds, materialized, prompts)
          : fault \in CleanupFaults}

\* The except handler of authenticate: an Exception is logged and answered
\* with False after the cleanup; a BaseException leaves the call as it is.
AuthRaise(f, exc, lg, pw, tcf, materialized, prompts) ==
    IF IsException(exc)
    THEN AuthReturn(f, "False",
                    lg \o <<LogExc("error", "encrypted OAuth authentication failed", exc)>>,
                    pw, tcf, None, materialized, prompts)
    ELSE {AuthOutcome(f, NoneVal, exc, lg, pw, tcf, None, materialized, prompts)}

\* Lines 88-98: with e, what encrypt_token did (its result is not looked
\* at): keep the credentials, clean up.
AuthSaved(e, creds, lg, pw, tcf, materialized, prompts) ==
    IF e.raised # "none"
    THEN AuthRaise(e.fs, e.raised, lg \o e.log, pw, tcf, materialized,
                   prompts + Prompts(e))
    ELSE AuthReturn(e.fs, "True", lg \o e.log, pw, tcf, Some(creds), materialized,
                    prompts + Prompts(e))

\* Lines 85-98: save the token.
AuthSave(f, creds, lg, pw, tcf, materialized, prompts) ==
    UNION {AuthSaved(encrypt_token(f, Pickle(creds), pw, pw, fault), creds,
                     lg \o <<L("info", "saving encrypted token")>>,
                     pw, tcf, materialized, prompts)
           : fault \in EncryptTokenFaults}

\* What flow.run_local_server gives: new credentials, an exception (the
\* user refuses, the port is taken), or an interrupt while it waits.
FlowResults ==
    [exc : {"none"}, val : FreshCreds]
    \cup [exc : {"FlowError", "KeyboardInterrupt"}, val : {NoneVal}]

\* Lines 78-83: the OAuth flow on the temp file (InstalledAppFlow reads it).
AuthRunFlow(f, temp_file, lg, pw, prompts) ==
    LET secrets == ReadFile(f, temp_file[1], "read_secrets", NoFault) IN
    IF secrets.exc # "none"
    THEN AuthRaise(f, secrets.exc, lg, pw, temp_file, TRUE, prompts)
    ELSE UNION {IF flow.exc # "none"
                THEN AuthRaise(f, flow.exc, lg, pw, temp_file, TRUE, prompts)
                ELSE AuthSave(f, flow.val, lg, pw, temp_file, TRUE, prompts)
                : flow \in FlowResults}

\* Lines 73-83: with ct, what create_temp_credentials_file did.
AuthMaterialized(ct, lg, pw, tcf, prompts) ==
    IF ct.raised # "none"
    THEN AuthRaise(ct.fs, ct.raised, lg \o ct.log, pw, tcf, FALSE,
                   prompts + Prompts(ct))
    ELSE IF ct.result = None
    THEN {AuthOutcome(ct.fs, "False", "none",
                      lg \o ct.log \o <<L("error", "failed to decrypt credentials")>>,
                      pw, None, None, FALSE, prompts + Prompts(ct))}
    ELSE AuthRunFlow(ct.fs, ct.result,
                     lg \o ct.log \o <<L("info", "starting OAuth flow")>>,
                     pw, prompts + Prompts(ct))

\* Lines 71-83: materialize the credentials and run the OAuth flow on them.
AuthFlow(f, lg, pw, tcf, prompts) ==
    UNION {AuthMaterialized(create_temp_credentials_file(f, pw, pw, fault),
                            lg \o <<L("info", "using encrypted credentials for OAuth flow")>>,
                            pw, tcf, prompts)
           : fault \in TempFaults}

\* Lines 66-69: creds.refresh(Request()) gives a new access token, raises
\* RefreshError, or is interrupted.
RefreshResults(creds) ==
    [exc : {"none"}, val : {[creds EXCEPT !.expired = FALSE, !.id = i] : i \in CredIds}]
    \cup [exc : {"RefreshError", "KeyboardInterrupt"}, val : {creds}]

\* Variant of lines 64-98 that runs the OAuth flow whatever the token holds.
AuthLoaded_always_flows(f, creds, lg, pw, tcf, prompts) ==
    AuthFlow(f, lg, pw, tcf, prompts)

\* Lines 64-98: with the credentials loaded from the token; elapsed tells
\* whether the access token has run out since it was stored.
AuthLoaded(f, creds, lg, pw, tcf, prompts) ==
    IF Valid(creds)
    THEN AuthReturn(f, "True", lg, pw, tcf, Some(creds), FALSE, prompts)
    ELSE IF creds.expired /\ creds.refresh_token
    THEN UNION {IF r.exc # "none"
                THEN AuthRaise(f, r.exc,
                               lg \o <<L("info", "refreshing expired credentials")>>,
                               pw, tcf, FALSE, prompts)
                ELSE AuthSave(f, r.val,
                              lg \o <<L("info", "refreshing expired credentials")>>,
                              pw, tcf, FALSE, prompts)
                : r \in RefreshResults(creds)}
    ELSE AuthFlow(f, lg, pw, tcf, prompts)

\* Lines 58-64: with the token bytes, which are not empty.
AuthUnpickled(f, loaded, elapsed, lg, pw, tcf, prompts) ==
    IF loaded.exc # "none"
    THEN AuthRaise(f, loaded.exc, lg, pw, tcf, FALSE, prompts)
    ELSE AuthLoaded(f, [loaded.val EXCEPT !.expired = loaded.val.expired \/ elapsed],
                    lg, pw, tcf, prompts)

\* Lines 57-98: with dt, what decrypt_token did.
AuthWithToken(dt, elapsed, lg, pw, tcf, prompts) ==
    IF dt.raised # "none"
    THEN AuthRaise(dt.fs, dt.raised, lg \o dt.log, pw, tcf, FALSE,
                   prompts + Prompts(dt))
    ELSE IF dt.result = None \/ dt.result = Some(<<>>)
    THEN AuthFlow(dt.fs,
                  lg \o dt.log
                     \o <<L("info", "no encrypted token found or failed to decrypt")>>,
                  pw, tcf, prompts + Prompts(dt))
    ELSE AuthUnpickled(dt.fs, pickle_loads(dt.result[1]), elapsed,
                       lg \o dt.log \o <<L("info", "loading existing encrypted token")>>,
                       pw, tcf, prompts + Prompts(dt))

\* Variant of lines 56-98 that leaves the vault to find the password: it
\* calls decrypt_token without one.
AuthWithPassword_vault_asks(f, pw, tcf, elapsed, lg, prompts) ==
    UNION {AuthWithToken(decrypt_token(f, NoneVal, pw, fault), elapsed, lg, pw,
                         tcf, prompts)
           : fault \in DecryptFaults}

\* Lines 56-98, with the session password pw in hand.
AuthWithPassword(f, pw, tcf, elapsed, lg, prompts) ==
    UNION {AuthWithToken(decrypt_token(f, pw, pw, fault), elapsed, lg, pw, tcf,
                         prompts)
           : fault \in DecryptFaults}

\* Lines 47-54: with gp, what the prompt gave.
AuthPrompted(f, gp, tcf, elapsed) ==
    IF gp.exc # "none"
    THEN AuthRaise(f, gp.exc, <<>>, NoneVal, tcf, FALSE, 1)
    ELSE AuthWithPassword(f, gp.val, tcf, elapsed, <<>>, 1)

\* Variant of the log record of line 51 that shows the password found in
\* the environment.
UsingEnvPasswordLog_shows_value(env_password) ==
    LogExc("info", "using password from environment variable", env_password)

\* Line 51: logger.info("Using password from environment variable")
UsingEnvPasswordLog(env_password) ==
    L("info", "using password from environment variable")

\* EncryptedOAuthManager.authenticate: the set of its possible outcomes from
\* files f, the manager's fields pw and tcf, and the environment env;
\* elapsed tells whether the stored access token has run out by now.
authenticate(f, pw, tcf, env, elapsed) ==
    IF pw # NoneVal THEN AuthWithPassword(f, pw, tcf, elapsed, <<>>, 0)
    ELSE IF env # NoneVal
    THEN AuthWithPassword(f, env, tcf, elapsed, <<UsingEnvPasswordLog(env)>>, 0)
    ELSE UNION {AuthPrompted(f, Getpass(NoneVal, typed, fault), tcf, elapsed)
                : typed \in Passwords, fault \in PromptFaults}

----------------------------------------------------------------------------
(* The connector factory and the retry decorator: values *)

\* How many GmailConnector objects the factory may create.
MaxConnectors == 2
\* How many GmailConnectorFactory objects there may be.
MaxInstances == 2
\* The largest max_retries given to retry_on_auth_failure.
MaxRetries == 1

\* The threads of the servers, each making one call.
Threads == {1, 2}
Instances == 1..MaxInstances

\* str(e) of the failures a wrapped function meets, as characters.
UpperCase ==
    <<"A", "B", "C", "D", "E", "F", "G", "H", "I", "J", "K", "L", "M", "N",
      "O", "P", "Q", "R", "S", "T", "U", "V", "W", "X", "Y", "Z">>
LowerCase ==
    <<"a", "b", "c", "d", "e", "f", "g", "h", "i", "j", "k", "l", "m", "n",
      "o", "p", "q", "r", "s", "t", "u", "v", "w", "x", "y", "z">>

\* str.lower()
lower(str) ==
    [i \in 1..Len(str) |->
        IF \E k \in 1..26 : UpperCase[k] = str[i]
        THEN LowerCase[CHOOSE k \in 1..26 : UpperCase[k] = str[i]]
        ELSE str[i]]

\* sub in str
In(sub, str) ==
    \E i \in 1..(Len(str) - Len(sub) + 1) : SubSeq(str, i, i + Len(sub) - 1) = sub

authentication ==
    <<"a", "u", "t", "h", "e", "n", "t", "i", "c", "a", "t", "i", "o", "n">>
unauthorized ==
    <<"u", "n", "a", "u", "t", "h", "o", "r", "i", "z", "e", "d">>

\* gmail_factory.py lines 61 and 68
GmailAuthenticationFailed ==
    <<"G", "m", "a", "i", "l", " ", "a", "u", "t", "h", "e", "n", "t", "i",
      "c", "a", "t", "i", "o", "n", " ", "f", "a", "i", "l", "e", "d">>
GmailConnectorCreationFailed ==
    <<"G", "m", "a", "i", "l", " ", "c", "o", "n", "n", "e", "c", "t", "o",
      "r", " ", "c", "r", "e", "a", "t", "i", "o", "n", " ", "f", "a", "i",
      "l", "e", "d", ":", " ">>

\* Failures of the Gmail API and of the network.
Unauthorized401 ==
    <<"4", "0", "1", " ", "U", "n", "a", "u", "t", "h", "o", "r", "i", "z",
      "e", "d">>
InvalidCredentials ==
    <<"I", "n", "v", "a", "l", "i", "d", " ", "C", "r", "e", "d", "e", "n",
      "t", "i", "a", "l", "s">>
QuotaExceeded ==
    <<"q", "u", "o", "t", "a", " ", "e", "x", "c", "e", "e", "d", "e", "d">>
TimedOut ==
    <<"t", "i", "m", "e", "d", " ", "o", "u", "t">>

\* What a Gmail operation may fail with once it has its connector.
OperationMessages == {Unauthorized401, InvalidCredentials, QuotaExceeded}

\* Variant of the test of lines 160-162 that takes every failure for one of
\* authentication.
AuthRelated_any(msg) == TRUE

\* decorators.py lines 160-162: the failure is one of authentication.
AuthRelated(msg) ==
    \/ In(authentication, lower(msg))
    \/ In(unauthorized, lower(msg))
    \/ In(lower(Credentials), lower(msg))

\* None, where a thread, a factory or a connector is expected.
Null == 0

\* An exception in flight: its type and str(e).
NoException == [type |-> "none", msg |-> <<>>]
Exc(type, msg) == [type |-> type, msg |-> msg]

\* A thread that has not called yet.  op: its call, get_gmail_connector or
\* a function wrapped by retry_on_auth_failure(max_retries); attempt,
\* last_exception: the wrapper's locals; invocations: how often the wrapper
\* has invoked the function; reset_done: reset_gmail_connector has returned
\* since the last invocation; self: the factory it calls; result, raised:
\* what its call returned or raised.
NoThread ==
    [pc |-> "idle", op |-> "none", force_recreate |-> FALSE, max_retries |-> 0,
     attempt |-> 0, invocations |-> 0, last_exception |-> NoException,
     reset_done |-> FALSE, self |-> Null, result |-> Null,
     raised |-> NoException]

----------------------------------------------------------------------------
(* The state machine *)

\* The token bytes handed to encrypt_token: b"", bytes that are no pickle,
\* pickled credentials.
TokenDatas ==
    {<<>>, RawBytes}
    \cup {Pickle([id |-> "tokA", refresh_token |-> TRUE, expired |-> FALSE])}

\* The record of a call.  before: what decrypt_credentials gave under the
\* call's password just before the call (kept when encrypt_credentials
\* succeeds, None otherwise).  The last five fields are authenticate's: whether
\* it materialized the temp file, the credentials it ended with, the value of
\* GMAIL_MCP_PASSWORD it read, how often getpass prompted during the call, and
\* whether the stored access token had run out by the time of the call.
Ret(op, pw, src, data, o, before) ==
    [op |-> op, password |-> pw, src |-> src, data |-> data,
     result |-> o.result, exc |-> o.exc, raised |-> o.raised, salt |-> o.salt,
     before |-> before, materialized |-> FALSE, credentials |-> None,
     env |-> NoneVal, prompts |-> 0, elapsed |-> FALSE]

NoRet ==
    Ret("none", NoneVal, <<>>, None,
        Outcome(<<>>, NoneVal, "none", "none", <<>>, None, FALSE), None)

\* The processes that call the vault concurrently, and a process that is
\* not in a call.  at: the line the process is about to run; salt: what
\* its _get_salt holds; data: the bytes it is about to write; result: what
\* its call returned.
Procs == {1, 2}
NoCall ==
    [op |-> "none", at |-> "idle", password |-> NoneVal, salt |-> <<>>,
     data |-> <<>>, result |-> None]

\* The files before the setup script has run: the source files only.
InitialFiles ==
    [p \in AllPaths |->
        IF p = SrcA THEN File(JsonText("doc1", "source"))
        ELSE IF p = SrcB THEN File(JsonText("doc2", "source"))
        ELSE IF p = SrcBad THEN File(Garbage)
        ELSE NoFile]

\* A manager that has not been asked to authenticate.  pc: the line it is
\* at; secrets: what it wrote to the temp file; result: what authenticate
\* returned.
NoManager ==
    [pc |-> "idle", password |-> NoneVal, temp_credentials_file |-> None,
     secrets |-> <<>>, credentials |-> None, result |-> NoneVal]

\* The objects as constructed, on the files f.
Constructed(f) ==
    /\ fs = f
    /\ password = NoneVal
    /\ temp_credentials_file = None
    /\ removals = 0
    /\ pc = "idle"
    /\ ret = NoRet
    /\ log = <<>>
    /\ proc = [p \in Procs |-> NoCall]
    /\ _factory = Null
    /\ _instance = Null
    /\ _lock = Null
    /\ _connector = [i \in Instances |-> Null]
    /\ connectors = <<>>
    /\ thread = [t \in Threads |-> NoThread]
    /\ manager = [t \in Threads |-> NoManager]

Init ==
    /\ encrypted_file \in BasePaths
    /\ Constructed(InitialFiles)

\* The inputs of a vault call: the password argument (None: the vault
\* prompts), what is typed at the prompt, and the fault the call meets.
Inputs(faults) ==
    [pwarg : Passwords, typed : {NoneVal}, fault : faults]
    \cup [pwarg : {NoneVal}, typed : Passwords, fault : PromptFaults]
\* The password the call worked with (None: it never got one).
Effective(in, o) ==
    IF in.pwarg # NoneVal THEN in.pwarg
    ELSE IF o.exc = "KeyboardInterrupt" /\ in.fault.at = "getpass" THEN NoneVal
    ELSE in.typed

\* A call of the vault returns to its caller with outcome o, recorded as r.
Returns(o, r) ==
    /\ pc = "idle"
    /\ pc' = "returned"
    /\ fs' = o.fs
    /\ ret' = r
    /\ log' = o.log
    /\ UNCHANGED <<encrypted_file, password, temp_credentials_file, removals, proc,
                   factory_vars, manager>>

\* What decrypt_credentials gave under pw before a call that succeeded.
Before(pw, o) ==
    IF o.result = "True" THEN decrypt_credentials(fs, pw, pw, NoFault).result
    ELSE None

EncryptCredentialsReturns(credentials_path, in, o) ==
    Returns(o, Ret("encrypt_credentials", Effective(in, o), credentials_path, None,
                   o, Before(Effective(in, o), o)))

EncryptCredentials ==
    \E credentials_path \in SourcePaths, in \in Inputs(EncryptFaults) :
        EncryptCredentialsReturns(
            credentials_path, in,
            encrypt_credentials(fs, credentials_path, in.pwarg, in.typed, in.fault))

\* The setup script: encrypt_credentials on the downloaded credentials,
\* the password typed at its prompt.
Setup ==
    \E pw \in Passwords :
        Returns(encrypt_credentials(fs, SrcA, NoneVal, pw, NoFault),
                Ret("encrypt_credentials", pw, SrcA, None,
                    encrypt_credentials(fs, SrcA, NoneVal, pw, NoFault), None))

DecryptCredentialsReturns(in, o) ==
    Returns(o, Ret("decrypt_credentials", Effective(in, o), <<>>, None, o, None))

DecryptCredentials ==
    \E in \in Inputs(DecryptFaults) :
        DecryptCredentialsReturns(
            in, decrypt_credentials(fs, in.pwarg, in.typed, in.fault))

EncryptTokenReturns(token_data, in, o) ==
    Returns(o, Ret("encrypt_token", Effective(in, o), <<>>, Some(token_data), o, None))

EncryptToken ==
    \E token_data \in TokenDatas, in \in Inputs(EncryptTokenFaults) :
        EncryptTokenReturns(
            token_data, in,
            encrypt_token(fs, token_data, in.pwarg, in.typed, in.fault))

DecryptTokenReturns(in, o) ==
    Returns(o, Ret("decrypt_token", Effective(in, o), <<>>, None, o, None))

DecryptToken ==
    \E in \in Inputs(DecryptFaults) :
        DecryptTokenReturns(in, decrypt_token(fs, in.pwarg, in.typed, in.fault))

CreateTempCredentialsFileReturns(in, o) ==
    Returns(o, Ret("create_temp_credentials_file", Effective(in, o), <<>>, None,
                   o, None))

CreateTempCredentialsFile ==
    \E in \in Inputs(TempFaults) :
        CreateTempCredentialsFileReturns(
            in, create_temp_credentials_file(fs, in.pwarg, in.typed, in.fault))

CleanupTempFileReturns(o) ==
    Returns(o, Ret("cleanup_temp_file", NoneVal, TempFile, None, o, None))

CleanupTempFile ==
    \E fault \in CleanupFaults :
        CleanupTempFileReturns(cleanup_temp_file(fs, TempFile, fault))

\* os.getenv('GMAIL_MCP_PASSWORD') is read while no password is cached.
EnvPasswords == IF password = NoneVal THEN Passwords \cup {NoneVal} ELSE {NoneVal}

\* authenticate ends with outcome o: the manager's fields are o's.
AuthenticateReturns(o, env_password, elapsed) ==
    /\ pc' = "returned"
    /\ fs' = o.fs
    /\ password' = o.password
    /\ temp_credentials_file' = o.temp_credentials_file
    /\ ret' = [op |-> "authenticate", password |-> o.password, src |-> <<>>,
               data |-> None, result |-> o.result, exc |-> o.raised,
               raised |-> o.raised, salt |-> None, before |-> None,
               materialized |-> o.materialized, credentials |-> o.credentials,
               env |-> env_password, prompts |-> o.prompts, elapsed |-> elapsed]
    /\ log' = o.log
    /\ UNCHANGED <<encrypted_file, removals, proc, factory_vars, manager>>

Authenticate ==
    /\ pc = "idle"
    /\ \E elapsed \in BOOLEAN, env_password \in EnvPasswords :
       \E o \in authenticate(fs, password, temp_credentials_file, env_password,
                             elapsed) :
           AuthenticateReturns(o, env_password, elapsed)

\* The user removes the salt file (nothing in the program does).
RemoveSaltFile ==
    /\ pc = "idle"
    /\ removals < MaxRemovals
    /\ fs[salt_file].exists
    /\ fs' = [fs EXCEPT ![salt_file] = NoFile]
    /\ removals' = removals + 1
    /\ UNCHANGED <<encrypted_file, password, temp_credentials_file, pc, ret, log, proc,
                   factory_vars, manager>>

\* The caller has looked at the outcome of its call and goes on.
Continue ==
    /\ pc = "returned"
    /\ pc' = "idle"
    /\ ret' = NoRet
    /\ log' = <<>>
    /\ UNCHANGED <<encrypted_file, fs, password, temp_credentials_file, removals,
                   proc, factory_vars, manager>>

----------------------------------------------------------------------------
(* Concurrent processes.  The vault takes no lock, so the calls of two     *)
(* processes interleave line by line: every action below is one access to  *)
(* the shared files, with the computation that precedes it in the process. *)
(* open(path, 'wb') creates or truncates the file; the bytes written are   *)
(* in the file when the with block closes it.                              *)

\* The call each process makes: process 1 encrypt_credentials on the
\* downloaded credentials, process 2 encrypt_token.
WriterOp(p) == IF p = 1 THEN "encrypt_credentials" ELSE "encrypt_token"
ReaderOps == {"decrypt_credentials", "decrypt_token"}
\* The path of the artifact of a call (lines 110 and 137, 244 and 267).
ArtifactOf(op) ==
    IF op \in {"encrypt_credentials", "decrypt_credentials"} THEN encrypted_file
    ELSE encrypted_token_path
\* The bytes a call seals (lines 97 and 105, line 241).
PlaintextOf(op) ==
    IF op = "encrypt_credentials" THEN json_dumps(json_loads(fs[SrcA].data).val)
    ELSE RawBytes
\* os.urandom(16) in a process: bytes that no file and no process holds.
HeldSalts == UNION {SaltIds(proc[p].salt) : p \in Procs}
ProcUrandom == Urandom(Least((1..MaxSalt) \ (UsedSalts(fs) \cup HeldSalts)))

\* Process p goes on with its local state l; f are the files after the step.
ProcStep(p, l, f) ==
    /\ pc = "idle"
    /\ proc' = [proc EXCEPT ![p] = l]
    /\ fs' = f
    /\ UNCHANGED <<encrypted_file, password, temp_credentials_file, removals, pc,
                   ret, log, factory_vars, manager>>

\* Process p goes on with its local state l and leaves the files alone.
ProcLocal(p, l) == ProcStep(p, l, fs)

\* The process calls encrypt_credentials or encrypt_token with a password
\* and comes to _get_salt (lines 100 and 235).
ProcCall(p) ==
    /\ proc[p].at = "idle"
    /\ \E pw \in Passwords :
           ProcStep(p, [NoCall EXCEPT !.op = WriterOp(p), !.at = "salt_exists",
                                      !.password = pw], fs)

\* _get_salt, line 63: os.path.exists(self.salt_file)
ProcSaltExists(p) ==
    /\ proc[p].at = "salt_exists"
    /\ ProcStep(p, [proc[p] EXCEPT !.at = IF fs[salt_file].exists
                                          THEN "read_salt" ELSE "open_salt"], fs)

\* _get_salt, lines 65-66: read the salt file
ProcReadSalt(p) ==
    /\ proc[p].at = "read_salt"
    /\ ProcStep(p, [proc[p] EXCEPT !.at = IF proc[p].op \in ReaderOps
                                          THEN "read_artifact"
                                          ELSE "open_artifact",
                                   !.salt = fs[salt_file].data], fs)

\* _get_salt, lines 69-70: draw a salt and open the salt file for writing
ProcOpenSalt(p) ==
    /\ proc[p].at = "open_salt"
    /\ ProcStep(p, [proc[p] EXCEPT !.at = "write_salt", !.salt = ProcUrandom],
                [fs EXCEPT ![salt_file] = File(<<>>)])

\* _get_salt, lines 71-72: write the salt, close the file, return the salt
ProcWriteSalt(p) ==
    /\ proc[p].at = "write_salt"
    /\ ProcStep(p, [proc[p] EXCEPT !.at = "open_artifact"],
                [fs EXCEPT ![salt_file] = File(proc[p].salt)])

\* Lines 101-110 and 236-246: derive the key, seal the plaintext, open the
\* artifact for writing
ProcOpenArtifact(p) ==
    /\ proc[p].at = "open_artifact"
    /\ ProcStep(p, [proc[p] EXCEPT
                       !.at = "write_artifact",
                       !.data = FernetEncrypt(
                                   _derive_key(proc[p].password, proc[p].salt),
                                   FreshIV(fs, ArtifactOf(proc[p].op)),
                                   PlaintextOf(proc[p].op))],
                [fs EXCEPT ![ArtifactOf(proc[p].op)] = File(<<>>)])

\* Lines 111 and 247: write the sealed bytes, close the file; the call
\* returns True
ProcWriteArtifact(p) ==
    /\ proc[p].at = "write_artifact"
    /\ ProcStep(p, [proc[p] EXCEPT !.at = "done"],
                [fs EXCEPT ![ArtifactOf(proc[p].op)] = File(proc[p].data)])

\* The process calls decrypt_credentials or decrypt_token with a password.
ProcDecryptCall(p) ==
    /\ proc[p].at = "idle"
    /\ \E op \in ReaderOps, pw \in Passwords :
           ProcLocal(p, [NoCall EXCEPT !.op = op, !.at = "artifact_exists",
                                       !.password = pw])

\* Lines 137-139 and 269-271: the artifact is looked for; None without it
ProcArtifactExists(p) ==
    /\ proc[p].at = "artifact_exists"
    /\ ProcLocal(p, [proc[p] EXCEPT !.at = IF fs[ArtifactOf(proc[p].op)].exists
                                           THEN "salt_file_exists" ELSE "done"])

\* Lines 141-143 and 273-275: the salt file is looked for; None without it,
\* _get_salt (lines 150 and 281) with it
ProcSaltFileExists(p) ==
    /\ proc[p].at = "salt_file_exists"
    /\ ProcLocal(p, [proc[p] EXCEPT !.at = IF fs[salt_file].exists
                                           THEN "salt_exists" ELSE "done"])

\* What _get_salt and the password argument gave process p, as the stages
\* of the vault take them.
SaltHeld(p) == [fs |-> fs, exc |-> "none", val |-> proc[p].salt, log |-> <<>>]
PasswordHeld(p) == [exc |-> "none", val |-> proc[p].password, prompted |-> FALSE]

\* Lines 151-165 and 282-295, with the handlers: the artifact is read and
\* opened with the key of the salt read before; the call returns
ProcReadArtifact(p) ==
    /\ proc[p].at = "read_artifact"
    /\ ProcLocal(p, [proc[p] EXCEPT
                        !.at = "done",
                        !.result =
                            IF proc[p].op = "decrypt_credentials"
                            THEN decrypt_credentials_handlers(
                                     decrypt_credentials_open(
                                         SaltHeld(p), PasswordHeld(p), NoFault)).result
                            ELSE decrypt_token_handlers(
                                     decrypt_token_open(
                                         SaltHeld(p), PasswordHeld(p), NoFault)).result])

\* The caller of a decrypt call has its result and may call again.
ProcReturn(p) ==
    /\ proc[p].at = "done"
    /\ proc[p].op \in ReaderOps
    /\ ProcLocal(p, NoCall)

\* No process is inside a call.
Quiescent == \A p \in Procs : proc[p].at \in {"idle", "done"}
\* No process has called, or every caller has gone on with its result.
AllIdle == \A p \in Procs : proc[p].at = "idle"

----------------------------------------------------------------------------
(* The connector factory and the retry decorator.  Each thread makes one   *)
(* call, get_gmail_connector or a function under retry_on_auth_failure     *)
(* that takes its connector from get_gmail_connector and then runs a Gmail *)
(* operation; the threads interleave at every access to the shared         *)
(* factory, and a thread waits where it takes the lock.                    *)

vault_vars ==
    <<encrypted_file, fs, password, temp_credentials_file, removals, pc, ret, log,
      proc, manager>>

\* Thread t goes on with its locals l.
ThreadStep(t, l) ==
    /\ thread' = [thread EXCEPT ![t] = l]
    /\ UNCHANGED vault_vars

\* Variant of the lock that never makes a thread wait.
Free_always(lock) == TRUE

\* threading.Lock: a thread enters a with block when no thread holds it.
Free(lock) == lock = Null

\* GmailConnector.is_authenticated of connector c (None: no connector).
is_authenticated(c) == c # Null /\ connectors[c] = "authenticated"

\* Variant of the handler of lines 65-68 that keeps the stored connector.
get_connector_except_keeps(self) == _connector

\* gmail_factory.py lines 65-68: the handler drops the stored connector.
get_connector_except(self) == [_connector EXCEPT ![self] = Null]

\* Variant of the test of line 159 that retries on the last attempt too.
MayRetry_always(l) == TRUE

\* decorators.py line 159: attempt < max_retries
MayRetry(l) == l.attempt < l.max_retries

\* decorators.py lines 155-179: the wrapper of thread locals l meets the
\* exception e of the function.  KeyboardInterrupt is no Exception and
\* passes through; a failure of authentication with retries left goes on
\* to reset_gmail_connector; any other is raised again after the loop.
wrapper_except(l, e) ==
    IF e.type = "KeyboardInterrupt"
    THEN [l EXCEPT !.pc = "done", !.raised = e]
    ELSE IF MayRetry(l) /\ AuthRelated(e.msg)
    THEN [l EXCEPT !.pc = "reset_test", !.last_exception = e]
    ELSE [l EXCEPT !.pc = "done", !.last_exception = e, !.raised = e]

\* The call in progress in a thread with locals l raises e: to the caller
\* of get_gmail_connector, or to the wrapper around the function.
Raises(l, e) ==
    IF l.op = "get_gmail_connector"
    THEN [l EXCEPT !.pc = "done", !.raised = e]
    ELSE wrapper_except(l, e)

\* A thread calls get_gmail_connector(force_recreate).
CallGetGmailConnector(t) ==
    /\ thread[t].pc = "idle"
    /\ \E force_recreate \in BOOLEAN :
           ThreadStep(t, [thread[t] EXCEPT !.pc = "ggc_test",
                                           !.op = "get_gmail_connector",
                                           !.force_recreate = force_recreate])
    /\ UNCHANGED <<_factory, _instance, _lock, _connector, connectors>>

\* A thread calls a function wrapped by retry_on_auth_failure(max_retries).
CallWrapper(t) ==
    /\ thread[t].pc = "idle"
    /\ \E max_retries \in 0..MaxRetries :
           ThreadStep(t, [thread[t] EXCEPT !.pc = "wrapper_invoke",
                                           !.op = "wrapper",
                                           !.max_retries = max_retries])
    /\ UNCHANGED <<_factory, _instance, _lock, _connector, connectors>>

\* decorators.py lines 152-154: the wrapper invokes the function, which
\* starts with get_gmail_connector().
WrapperInvoke(t) ==
    /\ thread[t].pc = "wrapper_invoke"
    /\ ThreadStep(t, [thread[t] EXCEPT !.pc = "ggc_test",
                                       !.invocations = @ + 1,
                                       !.reset_done = FALSE,
                                       !.result = Null])
    /\ UNCHANGED <<_factory, _instance, _lock, _connector, connectors>>

\* gmail_factory.py line 99: if _factory is None
GetGmailConnectorTest(t) ==
    /\ thread[t].pc = "ggc_test"
    /\ ThreadStep(t, IF _factory = Null
                     THEN [thread[t] EXCEPT !.pc = "new_test"]
                     ELSE [thread[t] EXCEPT !.pc = "gc_acquire", !.self = _factory])
    /\ UNCHANGED <<_factory, _instance, _lock, _connector, connectors>>

\* Line 27: if cls._instance is None
NewTest(t) ==
    /\ thread[t].pc = "new_test"
    /\ ThreadStep(t, [thread[t] EXCEPT
                         !.pc = IF _instance = Null THEN "new_acquire"
                                ELSE "ggc_assign"])
    /\ UNCHANGED <<_factory, _instance, _lock, _connector, connectors>>

\* Line 28: with cls._lock
NewAcquire(t) ==
    /\ thread[t].pc = "new_acquire"
    /\ Free(_lock)
    /\ _lock' = t
    /\ ThreadStep(t, [thread[t] EXCEPT !.pc = "new_locked"])
    /\ UNCHANGED <<_factory, _instance, _connector, connectors>>

\* Lines 29-30: under the lock, the instance is created if there is still
\* none; the lock is released.
NewLocked(t) ==
    /\ thread[t].pc = "new_locked"
    /\ _instance' = IF _instance = Null
                    THEN Least(Instances \ {_factory})
                    ELSE _instance
    /\ _lock' = Null
    /\ ThreadStep(t, [thread[t] EXCEPT !.pc = "ggc_assign"])
    /\ UNCHANGED <<_factory, _connector, connectors>>

\* Lines 31 and 100-102: _factory = GmailConnectorFactory(), then
\* _factory.get_connector(...)
GetGmailConnectorAssign(t) ==
    /\ thread[t].pc = "ggc_assign"
    /\ _factory' = _instance
    /\ ThreadStep(t, [thread[t] EXCEPT !.pc = "gc_acquire", !.self = _instance])
    /\ UNCHANGED <<_instance, _lock, _connector, connectors>>

\* Line 46: with self._lock
GetConnectorAcquire(t) ==
    /\ thread[t].pc = "gc_acquire"
    /\ Free(_lock)
    /\ _lock' = t
    /\ ThreadStep(t, [thread[t] EXCEPT !.pc = "gc_test"])
    /\ UNCHANGED <<_factory, _instance, _connector, connectors>>

\* Lines 47-49: a connector is created when none is stored, when the caller
\* forces it, or when the stored one is not authenticated.
GetConnectorTest(t) ==
    /\ thread[t].pc = "gc_test"
    /\ ThreadStep(t, [thread[t] EXCEPT
                         !.pc = IF \/ _connector[thread[t].self] = Null
                                   \/ thread[t].force_recreate
                                   \/ ~is_authenticated(_connector[thread[t].self])
                                THEN "gc_create"
                                ELSE "gc_return"])
    /\ UNCHANGED <<_factory, _instance, _lock, _connector, connectors>>

\* Lines 51-58 and 65-68: the connector is constructed and stored, or its
\* constructor fails and the handler raises RuntimeError.
GetConnectorCreate(t) ==
    /\ thread[t].pc = "gc_create"
    /\ \/ /\ Len(connectors) < MaxConnectors
          /\ connectors' = Append(connectors, "created")
          /\ _connector' = [_connector EXCEPT ![thread[t].self] = Len(connectors) + 1]
          /\ ThreadStep(t, [thread[t] EXCEPT !.pc = "gc_authenticate"])
          /\ UNCHANGED _lock
       \/ /\ _connector' = get_connector_except(thread[t].self)
          /\ _lock' = Null
          /\ ThreadStep(t, Raises(thread[t],
                                  Exc("RuntimeError",
                                      GmailConnectorCreationFailed \o TimedOut)))
          /\ UNCHANGED connectors
    /\ UNCHANGED <<_factory, _instance>>

\* Line 60: the stored connector's authenticate() starts.
GetConnectorAuthenticate(t) ==
    /\ thread[t].pc = "gc_authenticate"
    /\ connectors' = [connectors EXCEPT ![_connector[thread[t].self]] = "authenticating"]
    /\ ThreadStep(t, [thread[t] EXCEPT !.pc = "gc_authenticating"])
    /\ UNCHANGED <<_factory, _instance, _lock, _connector>>

\* Lines 60-68: authenticate() returns True; or it returns False or raises
\* an Exception, and the handler drops the connector and raises
\* RuntimeError; or the user interrupts it, which no handler catches.  The
\* with block releases the lock on every way out.
GetConnectorAuthenticated(t) ==
    LET c == _connector[thread[t].self] IN
    /\ thread[t].pc = "gc_authenticating"
    /\ \/ /\ connectors' = [connectors EXCEPT ![c] = "authenticated"]
          /\ ThreadStep(t, [thread[t] EXCEPT !.pc = "gc_return"])
          /\ UNCHANGED <<_lock, _connector>>
       \/ /\ connectors' = [connectors EXCEPT ![c] = "failed"]
          /\ _connector' = get_connector_except(thread[t].self)
          /\ _lock' = Null
          /\ \E msg \in {GmailAuthenticationFailed, TimedOut} :
                 ThreadStep(t, Raises(thread[t],
                                      Exc("RuntimeError",
                                          GmailConnectorCreationFailed \o msg)))
       \/ /\ connectors' = [connectors EXCEPT ![c] = "interrupted"]
          /\ _lock' = Null
          /\ ThreadStep(t, Raises(thread[t], Exc("KeyboardInterrupt", <<>>)))
          /\ UNCHANGED _connector
    /\ UNCHANGED <<_factory, _instance>>

\* Line 70: return self._connector, leaving the with block; the caller of
\* get_gmail_connector has its connector, a wrapped function goes on with
\* its Gmail operation.
GetConnectorReturn(t) ==
    /\ thread[t].pc = "gc_return"
    /\ _lock' = Null
    /\ ThreadStep(t, [thread[t] EXCEPT
                         !.pc = IF thread[t].op = "get_gmail_connector"
                                THEN "done" ELSE "operate",
                         !.result = _connector[thread[t].self]])
    /\ UNCHANGED <<_factory, _instance, _connector, connectors>>

\* The wrapped function's Gmail operation returns, fails or is interrupted.
Operate(t) ==
    /\ thread[t].pc = "operate"
    /\ \/ ThreadStep(t, [thread[t] EXCEPT !.pc = "done"])
       \/ \E msg \in OperationMessages :
              ThreadStep(t, wrapper_except([thread[t] EXCEPT !.result = Null],
                                           Exc("HttpError", msg)))
       \/ ThreadStep(t, wrapper_except([thread[t] EXCEPT !.result = Null],
                                       Exc("KeyboardInterrupt", <<>>)))
    /\ UNCHANGED <<_factory, _instance, _lock, _connector, connectors>>

\* decorators.py lines 172-173 and gmail_factory.py lines 107-108:
\* reset_gmail_connector() with no factory does nothing, and the loop goes on.
ResetTest(t) ==
    /\ thread[t].pc = "reset_test"
    /\ ThreadStep(t, IF _factory = Null
                     THEN [thread[t] EXCEPT !.pc = "wrapper_invoke",
                                            !.attempt = @ + 1,
                                            !.reset_done = TRUE]
                     ELSE [thread[t] EXCEPT !.pc = "reset_acquire",
                                            !.self = _factory])
    /\ UNCHANGED <<_factory, _instance, _lock, _connector, connectors>>

\* gmail_factory.py line 79: with self._lock
ResetAcquire(t) ==
    /\ thread[t].pc = "reset_acquire"
    /\ Free(_lock)
    /\ _lock' = t
    /\ ThreadStep(t, [thread[t] EXCEPT !.pc = "reset_locked"])
    /\ UNCHANGED <<_factory, _instance, _connector, connectors>>

\* Lines 80-81, and decorators.py line 173: the stored connector is dropped,
\* the lock released, and the loop goes on with the next attempt.
ResetLocked(t) ==
    /\ thread[t].pc = "reset_locked"
    /\ _connector' = [_connector EXCEPT ![thread[t].self] = Null]
    /\ _lock' = Null
    /\ ThreadStep(t, [thread[t] EXCEPT !.pc = "wrapper_invoke",
                                       !.attempt = @ + 1,
                                       !.reset_done = TRUE])
    /\ UNCHANGED <<_factory, _instance, connectors>>

\* Time passes and the credentials of a connector run out
\* (OAuthManager.is_authenticated: self.credentials.valid).
Expire ==
    /\ \E c \in 1..Len(connectors) :
           /\ connectors[c] = "authenticated"
           /\ connectors' = [connectors EXCEPT ![c] = "expired"]
    /\ UNCHANGED <<_factory, _instance, _lock, _connector, thread>>
    /\ UNCHANGED vault_vars

----------------------------------------------------------------------------
(* Two server threads, each with an EncryptedOAuthManager of its own,      *)
(* authenticate in one working directory: the MCP server authenticates a   *)
(* connector it creates itself and the REST server one of the factory, so  *)
(* no lock covers both.  The calls interleave at their accesses to the     *)
(* files.                                                                  *)

\* The manager of thread t goes on as m; f are the files after the step.
ManagerStep(t, m, f) ==
    /\ manager' = [manager EXCEPT ![t] = m]
    /\ fs' = f
    /\ UNCHANGED <<encrypted_file, password, temp_credentials_file, removals, pc,
                   ret, log, proc, factory_vars>>

\* encrypted_oauth_manager.py lines 100-106: the except handler, before its
\* cleanup.
ManagerFails(m) == [m EXCEPT !.pc = "cleanup", !.credentials = None, !.result = "False"]

\* Lines 47-65: the password comes from GMAIL_MCP_PASSWORD; decrypt_token
\* gives valid credentials, and authenticate returns True, or none, and it
\* goes on to the OAuth flow.
ManagerAuthenticate(t) ==
    /\ manager[t].pc = "idle"
    /\ \E env_password \in Passwords :
           LET dt == decrypt_token(fs, env_password, env_password, NoFault)
               m == [manager[t] EXCEPT !.password = env_password]
           IN
           IF dt.result = None \/ dt.result = Some(<<>>)
           THEN ManagerStep(t, [m EXCEPT !.pc = "create_temp"], dt.fs)
           ELSE IF pickle_loads(dt.result[1]).exc # "none"
           THEN ManagerStep(t, ManagerFails(m), dt.fs)
           ELSE IF Valid(pickle_loads(dt.result[1]).val)
           THEN ManagerStep(t, [m EXCEPT !.pc = "cleanup", !.result = "True",
                                         !.credentials =
                                             Some(pickle_loads(dt.result[1]).val)],
                            dt.fs)
           ELSE ManagerStep(t, [m EXCEPT !.pc = "create_temp"], dt.fs)

\* Lines 73-76: create_temp_credentials_file writes the temp file, or gives
\* None and authenticate returns False.
ManagerCreateTemp(t) ==
    /\ manager[t].pc = "create_temp"
    /\ LET ct == create_temp_credentials_file(fs, manager[t].password,
                                              manager[t].password, NoFault)
       IN
       IF ct.result = None
       THEN ManagerStep(t, [manager[t] EXCEPT !.pc = "done", !.result = "False"],
                        ct.fs)
       ELSE ManagerStep(t, [manager[t] EXCEPT !.pc = "flow",
                                              !.temp_credentials_file = ct.result,
                                              !.secrets = ct.fs[ct.result[1]].data],
                        ct.fs)

\* Lines 79-83: InstalledAppFlow.from_client_secrets_file reads the temp
\* file, and run_local_server gives the credentials or fails.
ManagerFlow(t) ==
    /\ manager[t].pc = "flow"
    /\ LET rd == ReadFile(fs, manager[t].temp_credentials_file[1], "read_secrets",
                          NoFault)
       IN
       IF rd.exc # "none" \/ json_loads(rd.data).exc # "none"
       THEN ManagerStep(t, ManagerFails(manager[t]), fs)
       ELSE \E flow \in FlowResults :
                /\ flow.exc # "KeyboardInterrupt"
                /\ IF flow.exc # "none"
                   THEN ManagerStep(t, ManagerFails(manager[t]), fs)
                   ELSE ManagerStep(t, [manager[t] EXCEPT !.pc = "save",
                                                          !.credentials = Some(flow.val)],
                                    fs)

\* Lines 86-90: encrypt_token saves the pickled credentials.
ManagerSave(t) ==
    /\ manager[t].pc = "save"
    /\ ManagerStep(t, [manager[t] EXCEPT !.pc = "cleanup", !.result = "True"],
                   encrypt_token(fs, Pickle(manager[t].credentials[1]),
                                 manager[t].password, manager[t].password,
                                 NoFault).fs)

\* Lines 93-98 and 103-106: the temp file recorded is removed, and
\* authenticate returns.
ManagerCleanup(t) ==
    /\ manager[t].pc = "cleanup"
    /\ ManagerStep(t, [manager[t] EXCEPT !.pc = "done",
                                         !.temp_credentials_file = None],
                   IF manager[t].temp_credentials_file = None THEN fs
                   ELSE cleanup_temp_file(fs, manager[t].temp_credentials_file[1],
                                          NoFault).fs)

----------------------------------------------------------------------------
(* Specifications *)

\* The vault: the calls of CredentialManager, one at a time, and nobody
\* else touching its files.
Next ==
    \/ EncryptCredentials
    \/ DecryptCredentials
    \/ EncryptToken
    \/ DecryptToken
    \/ CreateTempCredentialsFile
    \/ CleanupTempFile
    \/ Continue

Spec == Init /\ [][Next]_vars

\* The two slots of the vault when the salt file may be removed by hand.
SaltLossNext ==
    \/ EncryptCredentials
    \/ DecryptCredentials
    \/ EncryptToken
    \/ DecryptToken
    \/ RemoveSaltFile
    \/ Continue

SaltLossSpec == Init /\ [][SaltLossNext]_vars

\* The manager: the credentials are encrypted (setup), and authenticate
\* is called again and again.
AuthNext ==
    \/ Setup
    \/ Authenticate
    \/ Continue

AuthSpec == Init /\ [][AuthNext]_vars

\* A fresh installation on which two processes call the vault at the same
\* time: encrypt_credentials in one, encrypt_token in the other.
RaceNext ==
    \/ \E p \in Procs : ProcCall(p)
    \/ \E p \in Procs : ProcSaltExists(p)
    \/ \E p \in Procs : ProcReadSalt(p)
    \/ \E p \in Procs : ProcOpenSalt(p)
    \/ \E p \in Procs : ProcWriteSalt(p)
    \/ \E p \in Procs : ProcOpenArtifact(p)
    \/ \E p \in Procs : ProcWriteArtifact(p)

\* The vault written by calls made one at a time (the setup script, then
\* encrypt_token), and read by decrypt calls: one at a time with the
\* faults they may meet, or in two processes that interleave line by line
\* while nobody writes.
ReadersNext ==
    \/ AllIdle /\ Setup
    \/ AllIdle /\ EncryptToken
    \/ AllIdle /\ RemoveSaltFile
    \/ AllIdle /\ DecryptCredentials
    \/ AllIdle /\ DecryptToken
    \/ Continue
    \/ \E p \in Procs : ProcDecryptCall(p)
    \/ \E p \in Procs : ProcArtifactExists(p)
    \/ \E p \in Procs : ProcSaltFileExists(p)
    \/ \E p \in Procs : ProcSaltExists(p)
    \/ \E p \in Procs : ProcReadSalt(p)
    \/ \E p \in Procs : ProcReadArtifact(p)
    \/ \E p \in Procs : ProcReturn(p)

ReadersSpec == Init /\ [][ReadersNext]_vars

\* The installation of the setup script (base path 'credentials.encrypted').
RaceInit == Init /\ encrypted_file = DefaultBase

RaceSpec == RaceInit /\ [][RaceNext]_vars

\* The factory of one server process and the threads that use it.
FactoryInit == Init /\ encrypted_file = DefaultBase

FactoryNext ==
    \/ \E t \in Threads : CallGetGmailConnector(t)
    \/ \E t \in Threads : CallWrapper(t)
    \/ \E t \in Threads : WrapperInvoke(t)
    \/ \E t \in Threads : GetGmailConnectorTest(t)
    \/ \E t \in Threads : NewTest(t)
    \/ \E t \in Threads : NewAcquire(t)
    \/ \E t \in Threads : NewLocked(t)
    \/ \E t \in Threads : GetGmailConnectorAssign(t)
    \/ \E t \in Threads : GetConnectorAcquire(t)
    \/ \E t \in Threads : GetConnectorTest(t)
    \/ \E t \in Threads : GetConnectorCreate(t)
    \/ \E t \in Threads : GetConnectorAuthenticate(t)
    \/ \E t \in Threads : GetConnectorAuthenticated(t)
    \/ \E t \in Threads : GetConnectorReturn(t)
    \/ \E t \in Threads : Operate(t)
    \/ \E t \in Threads : ResetTest(t)
    \/ \E t \in Threads : ResetAcquire(t)
    \/ \E t \in Threads : ResetLocked(t)
    \/ Expire

FactorySpec == FactoryInit /\ [][FactoryNext]_vars

\* The installation of the setup script, its credentials sealed under a
\* password, and the two server threads of DualServerLauncher.
DualInit ==
    /\ encrypted_file = DefaultBase
    /\ \E pw \in Passwords :
           Constructed(encrypt_credentials(InitialFiles, SrcA, NoneVal, pw, NoFault).fs)

DualNext ==
    \/ \E t \in Threads : ManagerAuthenticate(t)
    \/ \E t \in Threads : ManagerCreateTemp(t)
    \/ \E t \in Threads : ManagerFlow(t)
    \/ \E t \in Threads : ManagerSave(t)
    \/ \E t \in Threads : ManagerCleanup(t)

DualSpec == DualInit /\ [][DualNext]_vars

----------------------------------------------------------------------------
(* Properties *)

\* The call the caller has just returned from.
Returned(op) == pc = "returned" /\ ret.op = op
\* The document a source file holds.
DocOf(path) == json_loads(fs[path].data).val
\* Passwords to try against an artifact: those in use, and the empty one.
TryPasswords == Passwords \cup {""}
\* The password whose key sealed the artifact at path (none: no whole token).
SealedUnder(path) ==
    IF fs[path].exists /\ Len(fs[path].data) = 1 /\ fs[path].data[1].kind = "fernet"
    THEN {fs[path].data[1].key.password}
    ELSE {}

\* The file holds one whole Fernet token.
WholeToken(file) == Len(file.data) = 1 /\ file.data[1].kind = "fernet"
\* What the decrypt call of the slot that op writes gives under pw on f.
Opens(op, f, pw) ==
    IF op = "encrypt_credentials"
    THEN decrypt_credentials(f, pw, NoneVal, NoFault).result
    ELSE decrypt_token(f, pw, NoneVal, NoFault).result

\* C1: when encrypt_credentials(source, p) has returned True, then
\* decrypt_credentials(p) on the same base path, with the password given or
\* typed at the prompt, returns the document the source file holds.
CredentialsRoundTrip ==
    (Returned("encrypt_credentials") /\ ret.result = "True")
    => /\ decrypt_credentials(fs, ret.password, ret.password, NoFault).result
            = Some(DocOf(ret.src))
       /\ decrypt_credentials(fs, NoneVal, ret.password, NoFault).result
            = Some(DocOf(ret.src))

CredentialsRoundTripWitness ==
    /\ Returned("encrypt_credentials")
    /\ ret.result = "True"
    /\ ret.src = SrcB
    /\ ret.password = "pw2"
    /\ decrypt_credentials(fs, "pw2", "pw2", NoFault).result = Some("doc2")

\* C2: a password other than the one an artifact was sealed under never
\* opens it, in either slot: right after encrypt_credentials(source, p) or
\* encrypt_token(b, p) has returned True, decrypting that slot with any
\* q # p returns None; and whenever a decrypt call returns a value, its
\* password is the one the artifact was sealed under.
WrongPasswordRejected ==
    /\ (Returned("encrypt_credentials") /\ ret.result = "True")
       => \A q \in TryPasswords \ {ret.password} :
              decrypt_credentials(fs, q, q, NoFault).result = None
    /\ (Returned("encrypt_token") /\ ret.result = "True")
       => \A q \in TryPasswords \ {ret.password} :
              decrypt_token(fs, q, q, NoFault).result = None
    /\ (Returned("decrypt_credentials") /\ ret.result # None)
       => SealedUnder(encrypted_file) = {ret.password}
    /\ (Returned("decrypt_token") /\ ret.result # None)
       => SealedUnder(encrypted_token_path) = {ret.password}

WrongPasswordRejectedWitness ==
    /\ Returned("decrypt_token")
    /\ ret.password = "pw2"
    /\ SealedUnder(encrypted_token_path) = {"pw1"}
    /\ ret.exc = "InvalidToken"
    /\ ret.result = None
    /\ SealedUnder(encrypted_file) = {"pw1"}
    /\ decrypt_credentials(fs, "pw2", "pw2", NoFault).result = None

\* C3: when encrypt_token(b, p) has returned True, then decrypt_token(p) on
\* the same base path returns exactly b, for every b, the empty byte string
\* among them.
TokenRoundTrip ==
    (Returned("encrypt_token") /\ ret.result = "True")
    => /\ decrypt_token(fs, ret.password, ret.password, NoFault).result = ret.data
       /\ decrypt_token(fs, NoneVal, ret.password, NoFault).result = ret.data

TokenRoundTripWitness ==
    /\ Returned("encrypt_token")
    /\ ret.result = "True"
    /\ ret.data = Some(<<>>)
    /\ decrypt_token(fs, ret.password, ret.password, NoFault).result = Some(<<>>)

\* C4: when encrypt_credentials(source2, p) has returned True on a base
\* path whose artifact held a document sealed under p before the call, the
\* artifact is one token holding the document of source2 and nothing else,
\* and decrypt_credentials(p) returns the document of source2.
ReencryptionReplaces ==
    (Returned("encrypt_credentials") /\ ret.result = "True" /\ ret.before # None)
    => /\ decrypt_credentials(fs, ret.password, ret.password, NoFault).result
            = Some(DocOf(ret.src))
       /\ \E iv \in 1..MaxNonce :
              fs[encrypted_file].data
                = FernetEncrypt(_derive_key(ret.password, ret.salt[1]), iv,
                                json_dumps(DocOf(ret.src)))

ReencryptionReplacesWitness ==
    /\ Returned("encrypt_credentials")
    /\ ret.result = "True"
    /\ ret.before = Some("doc1")
    /\ ret.src = SrcB
    /\ decrypt_credentials(fs, ret.password, ret.password, NoFault).result = Some("doc2")

\* C5: in the vault run one call at a time with nobody removing the salt
\* file, once the salt file exists no step changes it, and every call in
\* which _get_salt returned got the bytes the file holds.
SaltReadOnly ==
    [][fs[salt_file].exists
       => /\ fs'[salt_file] = fs[salt_file]
          /\ (pc' = "returned" /\ ret'.salt # None)
             => ret'.salt = Some(fs[salt_file].data)]_vars

SaltReadOnlyWitness ==
    /\ pc = "returned"
    /\ ret.op \in {"decrypt_credentials", "decrypt_token", "encrypt_token",
                    "encrypt_credentials", "create_temp_credentials_file"}
    /\ \E i \in 1..Len(log) : log[i].msg = "loading existing salt"
    /\ fs[salt_file].exists
    /\ fs[salt_file].data # <<>>
    /\ ret.salt = Some(fs[salt_file].data)

\* os.remove failed in the call returned from.
RemoveFailed == \E i \in 1..Len(log) : log[i].msg = "failed to remove temporary file"

\* C6: whenever authenticate has ended, by a return or by an exception
\* leaving it, after create_temp_credentials_file gave it the temp file, no
\* file is left at the temp path.  (Stated for the calls in which os.remove
\* itself did not fail.)
TempFileNeverLeftBehind ==
    (Returned("authenticate") /\ ret.materialized /\ ~RemoveFailed)
    => ~fs[TempFile].exists

\* A fresh installation: no salt file, no artifact of either slot.
FreshInstallation ==
    /\ ~fs[salt_file].exists
    /\ ~fs[encrypted_file].exists
    /\ ~fs[encrypted_token_path].exists

\* C7: on a fresh installation (no salt file, no artifact of either slot)
\* decrypt_token returns None, raises nothing and logs nothing above info.
FreshDecryptTokenQuiet ==
    (Returned("decrypt_token") /\ FreshInstallation)
    => /\ ret.result = None
       /\ ret.raised = "none"
       /\ \A i \in 1..Len(log) : log[i].level \in {"info", "debug"}

FreshDecryptTokenQuietWitness ==
    /\ Returned("decrypt_token")
    /\ FreshInstallation
    /\ ret.result = None
    /\ log = <<L("info", "encrypted token file not found")>>

\* C8: encrypt_credentials returns False and raises nothing when the source
\* file is missing, when the source is no JSON, and when an I/O error
\* (OSError) meets it while it reads the source or writes the salt or the
\* artifact.
EncryptFailuresReturned ==
    (/\ Returned("encrypt_credentials")
     /\ \/ ~fs[ret.src].exists
        \/ ret.exc \in {"FileNotFoundError", "JSONDecodeError", "OSError"})
    => /\ ret.result = "False"
       /\ ret.raised = "none"

\* an I/O error in the write of the artifact: the artifact is left empty
EncryptFailuresReturnedWitness ==
    /\ Returned("encrypt_credentials")
    /\ ret.exc = "OSError"
    /\ ret.salt # None
    /\ fs[encrypted_file] = File(<<>>)
    /\ ret.result = "False"
    /\ ret.raised = "none"

\* C9: decrypt_credentials returns None, logs an error and raises nothing
\* when the credentials artifact is missing, when the salt file is missing,
\* when the password is wrong (InvalidToken) and when the decrypted bytes
\* are no JSON.
DecryptFailuresGraceful ==
    (/\ Returned("decrypt_credentials")
     /\ \/ ~fs[encrypted_file].exists
        \/ ~fs[salt_file].exists
        \/ ret.exc \in {"InvalidToken", "JSONDecodeError"})
    => /\ ret.result = None
       /\ ret.raised = "none"
       /\ \E i \in 1..Len(log) : log[i].level = "error"

\* the salt file is gone while the artifact is there
DecryptFailuresGracefulWitness ==
    /\ Returned("decrypt_credentials")
    /\ fs[encrypted_file].exists
    /\ SealedUnder(encrypted_file) = {ret.password}
    /\ ~fs[salt_file].exists
    /\ ret.result = None
    /\ log = <<L("error", "salt file not found")>>

\* C10: for every base path, no encrypt_token call changes the credentials
\* artifact and no encrypt_credentials call changes the token artifact.
SlotsIndependent ==
    [][/\ (pc' = "returned" /\ ret'.op = "encrypt_token")
          => fs'[encrypted_file] = fs[encrypted_file]
       /\ (pc' = "returned" /\ ret'.op = "encrypt_credentials")
          => fs'[encrypted_token_path] = fs[encrypted_token_path]]_vars

\* The artifacts of the two slots that hold a whole Fernet token.
SealedArtifacts ==
    {a \in {encrypted_file, encrypted_token_path} :
        Len(fs[a].data) = 1 /\ fs[a].data[1].kind = "fernet"}
\* C11: for every base path, the credentials artifact path, the token
\* artifact path and the salt path are pairwise distinct.
ArtifactPathsDistinct ==
    /\ encrypted_file # encrypted_token_path
    /\ encrypted_file # salt_file
    /\ encrypted_token_path # salt_file


\* C12: both artifacts under one base path share one salt: whenever no
\* call is in progress, also after an encrypt_credentials call and an
\* encrypt_token call of two processes have interleaved step by step on a
\* fresh installation, every artifact on disk was sealed with a key derived
\* from the bytes that are in the salt file.
ArtifactsShareSalt ==
    Quiescent =>
        \A a \in SealedArtifacts :
            /\ fs[salt_file].exists
            /\ fs[a].data[1].key.salt = fs[salt_file].data

\* What the decrypt call of process p returns when it runs alone on the
\* files as they are.
Alone(p) ==
    IF proc'[p].op = "decrypt_credentials"
    THEN decrypt_credentials(fs, proc'[p].password, NoneVal, NoFault).result
    ELSE decrypt_token(fs, proc'[p].password, NoneVal, NoFault).result

\* C13: decrypt_credentials and decrypt_token change no file and create
\* none, whatever their outcome, and a decrypt call that interleaves with
\* the decrypt calls of another process returns what it returns alone.
DecryptNonMutating ==
    [][/\ (pc' = "returned" /\ ret'.op \in ReaderOps) => fs' = fs
       /\ \A p \in Procs :
             (proc'[p] # proc[p] /\ proc'[p].op \in ReaderOps)
             => /\ fs' = fs
                /\ proc'[p].at = "done" => proc'[p].result = Alone(p)]_vars

\* two decrypt calls in progress at once, one of them returns the document
DecryptNonMutatingWitness ==
    /\ proc[1].op = "decrypt_credentials"
    /\ proc[1].at = "done"
    /\ proc[1].result = Some("doc1")
    /\ proc[2].op = "decrypt_token"
    /\ proc[2].at = "read_artifact"

\* C14: an encrypt call that is interrupted or whose write fails leaves
\* the previous artifact whole: an artifact that decrypted before the
\* aborted call decrypts to the same value after it.
AbortedEncryptKeepsArtifact ==
    [][\A pw \in Passwords :
         /\ (/\ pc' = "returned"
             /\ ret'.op = "encrypt_credentials"
             /\ ret'.result # "True"
             /\ decrypt_credentials(fs, pw, NoneVal, NoFault).result # None)
            => decrypt_credentials(fs', pw, NoneVal, NoFault).result
               = decrypt_credentials(fs, pw, NoneVal, NoFault).result
         /\ (/\ pc' = "returned"
             /\ ret'.op = "encrypt_token"
             /\ ret'.result # "True"
             /\ decrypt_token(fs, pw, NoneVal, NoFault).result # None)
            => decrypt_token(fs', pw, NoneVal, NoFault).result
               = decrypt_token(fs, pw, NoneVal, NoFault).result]_vars

\* C15: when an encrypt call that returned True sealed the plaintext that
\* the artifact it replaced held, under the same password and salt, the
\* new artifact bytes differ from the replaced ones, and both decrypt to
\* the same plaintext.
NonceUnique ==
    [][(/\ pc' = "returned"
        /\ ret'.op \in {"encrypt_credentials", "encrypt_token"}
        /\ ret'.result = "True"
        /\ WholeToken(fs[ArtifactOf(ret'.op)])
        /\ WholeToken(fs'[ArtifactOf(ret'.op)])
        /\ fs'[ArtifactOf(ret'.op)].data[1].key = fs[ArtifactOf(ret'.op)].data[1].key
        /\ fs'[ArtifactOf(ret'.op)].data[1].pt = fs[ArtifactOf(ret'.op)].data[1].pt)
       => /\ fs'[ArtifactOf(ret'.op)].data # fs[ArtifactOf(ret'.op)].data
          /\ Opens(ret'.op, fs', ret'.password) # None
          /\ Opens(ret'.op, fs', ret'.password) = Opens(ret'.op, fs, ret'.password)]_vars

\* encrypt_credentials sealed again, under the same password, the document
\* the artifact held; the new token has another IV
NonceUniqueWitness ==
    /\ Returned("encrypt_credentials")
    /\ ret.result = "True"
    /\ ret.before = Some(DocOf(ret.src))
    /\ WholeToken(fs[encrypted_file])
    /\ fs[encrypted_file].data[1].iv = 2
    /\ fs[encrypted_file].data[1].pt = json_dumps(DocOf(ret.src))

\* C16: whenever create_temp_credentials_file returns None, because
\* decrypt_credentials failed or for any other reason, the call created and
\* modified no file at the temp path.
TempWrittenOnlyOnSuccess ==
    [][(/\ pc' = "returned"
        /\ ret'.op = "create_temp_credentials_file"
        /\ ret'.raised = "none"
        /\ ret'.result = None)
       => fs'[TempFile] = fs[TempFile]]_vars

\* C17: cleanup_temp_file raises nothing: a file at the path is deleted;
\* when the deletion fails the file stays, the error is logged and the call
\* returns; without a file at the path nothing happens and nothing is
\* logged; and a second call right after a call changes nothing.
CleanupBestEffort ==
    [][(pc' = "returned" /\ ret'.op = "cleanup_temp_file")
       => /\ ret'.raised = "none"
          /\ ~fs[TempFile].exists => (fs' = fs /\ log' = <<>>)
          /\ (fs[TempFile].exists /\ ret'.exc = "none")
             => fs' = [fs EXCEPT ![TempFile] = NoFile]
          /\ ret'.exc # "none"
             => /\ fs' = fs
                /\ log'[Len(log')] = L("error", "failed to remove temporary file")
          /\ ret'.exc = "none"
             => /\ cleanup_temp_file(fs', TempFile, NoFault).fs = fs'
                /\ cleanup_temp_file(fs', TempFile, NoFault).log = <<>>]_vars

\* the deletion failed: the file is still there, the call returned
CleanupBestEffortWitness ==
    /\ Returned("cleanup_temp_file")
    /\ ret.exc = "OSError"
    /\ ret.raised = "none"
    /\ fs[TempFile].exists
    /\ log[Len(log)].level = "error"

\* The artifact at path with bytes of it changed, and cut to no bytes.
Tampered(f, path) ==
    [f EXCEPT ![path] = File(<<[kind |-> "tampered", of |-> f[path].data]>>)]
Truncated(f, path) == [f EXCEPT ![path] = File(<<>>)]
\* The decrypt call op on the files f under pw.
Decrypt(op, f, pw) ==
    IF op = "decrypt_credentials" THEN decrypt_credentials(f, pw, NoneVal, NoFault)
    ELSE decrypt_token(f, pw, NoneVal, NoFault)
\* Two outcomes a caller and a reader of the log cannot tell apart: both
\* returned None and logged the same records, the last one an error.
SameFailure(a, b) ==
    /\ a.raised = "none" /\ b.raised = "none"
    /\ a.result = None /\ b.result = None
    /\ a.log = b.log
    /\ a.log[Len(a.log)].level = "error"

\* C18: for a slot sealed under password p, decrypt with another password,
\* and decrypt with p of the artifact tampered with or truncated, return
\* the same value (None) and log the same records (same level, same
\* message, same exception type).
AuthFailuresIndistinguishable ==
    \A op \in ReaderOps, p \in Passwords :
        (/\ fs[salt_file].exists
         /\ WholeToken(fs[ArtifactOf(op)])
         /\ fs[ArtifactOf(op)].data[1].key = _derive_key(p, fs[salt_file].data))
        => \A q \in Passwords \ {p} :
             /\ SameFailure(Decrypt(op, fs, q),
                            Decrypt(op, Tampered(fs, ArtifactOf(op)), p))
             /\ SameFailure(Decrypt(op, fs, q),
                            Decrypt(op, Truncated(fs, ArtifactOf(op)), p))

\* decrypt_token has just failed on the wrong password; the tampered
\* artifact under the right password would have given the same
AuthFailuresIndistinguishableWitness ==
    /\ Returned("decrypt_token")
    /\ ret.exc = "InvalidToken"
    /\ ret.result = None
    /\ WholeToken(fs[encrypted_token_path])
    /\ fs[encrypted_token_path].data[1].key = _derive_key("pw1", fs[salt_file].data)
    /\ ret.password = "pw2"
    /\ log = Decrypt("decrypt_token", Tampered(fs, encrypted_token_path), "pw1").log
    /\ log[Len(log)] = LogExc("error", "failed to decrypt token", "InvalidToken")

\* What a reader of the bytes of chunk c learns is a password.  A Fernet
\* token shows its IV and its ciphertext, not the key it names in the model.
ShowsPassword(c) ==
    CASE c.kind = "fernet" -> FALSE
      [] c.kind = "random" -> FALSE
      [] c.kind = "json" -> c.doc \in Passwords
      [] c.kind \in {"text", "raw"} -> c.id \in Passwords
      [] c.kind = "pickle" -> c.obj.id \in Passwords
      [] OTHER -> TRUE

\* C19: over the setup and any sequence of authenticate calls, with the
\* vault calls they make, no file (salt file, artifacts, temp file) and no
\* log record holds the password; the derived key is in no file either,
\* but as the key a token was sealed with.
PasswordNeverPersisted ==
    /\ \A c \in Chunks(fs) : ~ShowsPassword(c)
    /\ \A i \in 1..Len(log) :
          /\ log[i].msg \notin Passwords
          /\ log[i].detail \notin Passwords

\* authenticate took the password from the environment, ran the OAuth
\* flow and saved the token
PasswordNeverPersistedWitness ==
    /\ Returned("authenticate")
    /\ ret.result = "True"
    /\ password \in Passwords
    /\ \E i \in 1..Len(log) : log[i] = UsingEnvPasswordLog(password)
    /\ WholeToken(fs[encrypted_token_path])
    /\ fs[encrypted_token_path].data[1].key.password = password
    /\ fs[salt_file].exists

\* C20: from both slots sealed under p1 (both decrypt under p1), an
\* encrypt_credentials(source, p2) that returns True leaves the salt file
\* unchanged; after it decrypt_credentials(p2) gives the document,
\* decrypt_credentials(p1) gives None and decrypt_token(p2) gives None (the
\* token slot stays sealed under p1 until encrypt_token writes it again).
PasswordChange ==
    [][\A p1 \in Passwords : \A p2 \in Passwords \ {p1} :
         (/\ pc' = "returned"
          /\ ret'.op = "encrypt_credentials"
          /\ ret'.result = "True"
          /\ ret'.password = p2
          /\ Decrypt("decrypt_credentials", fs, p1).result # None
          /\ Decrypt("decrypt_token", fs, p1).result # None)
         => /\ fs'[salt_file] = fs[salt_file]
            /\ Decrypt("decrypt_credentials", fs', p2).result = Some(DocOf(ret'.src))
            /\ Decrypt("decrypt_credentials", fs', p1).result = None
            /\ Decrypt("decrypt_token", fs', p2).result = None
            /\ Decrypt("decrypt_token", fs', p1).result
               = Decrypt("decrypt_token", fs, p1).result]_vars

\* The decrypt call of the slot that op reads or writes.
SlotReader(op) ==
    IF op \in {"encrypt_credentials", "decrypt_credentials"}
    THEN "decrypt_credentials" ELSE "decrypt_token"
\* The call returned from succeeded: an encrypt call returned True, a
\* decrypt call returned a value.
Succeeded ==
    \/ ret.op \in {"encrypt_credentials", "encrypt_token"} /\ ret.result = "True"
    \/ ret.op \in ReaderOps /\ ret.result # None

\* C21: the vault keeps no key and no password between calls: right after
\* an encrypt or decrypt call that succeeded under password p, the decrypt
\* call of the same slot under any other password returns None.
NoKeyKept ==
    (/\ pc = "returned"
     /\ ret.op \in {"encrypt_credentials", "encrypt_token"} \cup ReaderOps
     /\ Succeeded)
    => \A q \in Passwords \ {ret.password} :
         Decrypt(SlotReader(ret.op), fs, q).result = None

\* decrypt_credentials has just given the document under pw1
NoKeyKeptWitness ==
    /\ Returned("decrypt_credentials")
    /\ ret.result = Some("doc1")
    /\ ret.password = "pw1"
    /\ Decrypt("decrypt_credentials", fs, "pw2").result = None
    /\ Decrypt("decrypt_credentials", fs, "pw1").result = Some("doc1")

\* C22: without a token artifact decrypt_token returns None and logs one
\* info record and no error record; without a credentials artifact
\* decrypt_credentials returns None and logs an error record.
MissingArtifactSeverity ==
    /\ (Returned("decrypt_token") /\ ~fs[encrypted_token_path].exists)
       => /\ ret.result = None
          /\ ret.raised = "none"
          /\ \E i \in 1..Len(log) : log[i].level = "info"
          /\ \A i \in 1..Len(log) : log[i].level # "error"
    /\ (Returned("decrypt_credentials") /\ ~fs[encrypted_file].exists)
       => /\ ret.result = None
          /\ ret.raised = "none"
          /\ \E i \in 1..Len(log) : log[i].level = "error"

\* the credentials are set up, no token was saved yet
MissingArtifactSeverityWitness ==
    /\ Returned("decrypt_token")
    /\ ~fs[encrypted_token_path].exists
    /\ fs[encrypted_file].exists
    /\ fs[salt_file].exists
    /\ ret.result = None
    /\ log = <<L("info", "encrypted token file not found")>>

\* An authenticate call returns in this step.
AuthenticateStep == pc = "idle" /\ pc' = "returned" /\ ret'.op = "authenticate"

\* C23: the manager sources its password at most once.  An authenticate call
\* of a manager without a password takes GMAIL_MCP_PASSWORD when it is set,
\* without any prompt, and otherwise prompts exactly once; a manager that has
\* a password keeps it and nothing prompts, so no vault call ever prompts.
PasswordSourcedOnce ==
    [][AuthenticateStep =>
         /\ password # NoneVal
              => password' = password /\ ret'.prompts = 0
         /\ (password = NoneVal /\ ret'.env # NoneVal)
              => password' = ret'.env /\ ret'.prompts = 0
         /\ (password = NoneVal /\ ret'.env = NoneVal)
              => /\ ret'.prompts = 1
                 /\ \/ password' \in Passwords
                    \/ password' = NoneVal /\ ret'.raised = "KeyboardInterrupt"]_vars

\* A second authenticate call of a manager that prompted for its password
\* has run the OAuth flow, vault calls included, without a prompt.
PasswordSourcedOnceWitness ==
    /\ Returned("authenticate")
    /\ ret.prompts = 0
    /\ ret.env = NoneVal
    /\ ret.materialized
    /\ ret.result = "True"
    /\ password = "pw1"

\* The words of a failure of authentication.
AuthWords == {authentication, unauthorized, Credentials}
\* The message contains one of the words as written, or in any letter case.
ContainsAuthWord(msg) == \E w \in AuthWords : In(w, msg)
ContainsAuthWordAnyCase(msg) == \E w \in AuthWords : In(w, lower(msg))
\* The wrapper of thread t invokes the function again in this step.
Reinvokes(t) ==
    /\ thread[t].invocations >= 1
    /\ thread'[t].invocations = thread[t].invocations + 1
\* The function invoked by the wrapper of thread t fails in this step with
\* an Exception, kept in last_exception.
FunctionFails(t) ==
    /\ thread[t].op = "wrapper"
    /\ thread[t].pc \in {"gc_create", "gc_authenticating", "operate"}
    /\ thread'[t].pc \in {"reset_test", "done"}
    /\ thread'[t].last_exception # thread[t].last_exception
\* The rule of retry_on_auth_failure, for failures that count as failures of
\* authentication when related(msg) holds.
RetryRule(related(_)) ==
    \A t \in Threads :
        /\ thread'[t].invocations <= thread'[t].max_retries + 1
        /\ (thread'[t].op = "wrapper" /\ thread'[t].pc = "done")
             => thread'[t].invocations >= 1
        /\ Reinvokes(t)
             => /\ thread[t].last_exception.type # "none"
                /\ related(thread[t].last_exception.msg)
                /\ thread[t].reset_done
        /\ FunctionFails(t)
             => IF /\ related(thread'[t].last_exception.msg)
                   /\ thread[t].invocations <= thread[t].max_retries
                THEN thread'[t].pc = "reset_test"
                ELSE /\ thread'[t].pc = "done"
                     /\ thread'[t].raised = thread'[t].last_exception

\* C24 as stated: the wrapper invokes the function at least once and at most
\* max_retries + 1 times; it invokes it again only after a failure whose
\* message contains 'authentication', 'unauthorized' or 'credentials' and
\* after reset_gmail_connector; any other failure, and a failure of the last
\* attempt, is raised again with no further invocation.
RetryOnWordsAsWritten == [][RetryRule(ContainsAuthWord)]_vars

\* C24: the same, with the words looked for in the message in any letter
\* case: the wrapper invokes the function at least once and at most
\* max_retries + 1 times, again only after a failure whose message contains
\* one of the three words in any letter case and after
\* reset_gmail_connector; any other failure, and a failure of the last
\* attempt, is raised again with no further invocation.
RetryOnAuthFailure == [][RetryRule(ContainsAuthWordAnyCase)]_vars

\* A wrapper invoked its function a second time after '401 Unauthorized'.
RetryOnAuthFailureWitness ==
    \E t \in Threads :
        /\ thread[t].invocations = 2
        /\ thread[t].pc = "operate"
        /\ thread[t].last_exception.msg = Unauthorized401

\* get_connector returns to thread t in this step.
GetConnectorReturns(t) == thread[t].pc = "gc_return" /\ thread'[t].pc # "gc_return"
\* The creation or the authentication of a connector fails in thread t in
\* this step: the constructor raises, or authenticate() returns False or
\* raises an Exception.
CreationFails(t) ==
    /\ thread[t].pc \in {"gc_create", "gc_authenticating"}
    /\ thread'[t].pc \notin {"gc_create", "gc_authenticate", "gc_authenticating",
                             "gc_return"}
    /\ \A c \in 1..Len(connectors) :
           connectors'[c] = "interrupted" => connectors[c] = "interrupted"
\* What get_connector raised in thread t: to its caller, or to the wrapper.
GetConnectorRaised(t) ==
    IF thread'[t].op = "get_gmail_connector" THEN thread'[t].raised
    ELSE thread'[t].last_exception
\* authenticate() of connector c has returned True.
HasAuthenticated(c) == connectors[c] \in {"authenticated", "expired"}

\* C25: get_connector returns only a connector whose authenticate() has
\* returned True; when the creation or the authentication fails it raises
\* RuntimeError and leaves no connector stored; and a connector the factory
\* keeps between calls has authenticated or is not authenticated, so that
\* the next get_connector authenticates afresh.
OnlyAuthenticatedConnectors ==
    [][\A t \in Threads :
         /\ GetConnectorReturns(t)
              => /\ thread'[t].result # Null
                 /\ HasAuthenticated(thread'[t].result)
         /\ CreationFails(t)
              => /\ GetConnectorRaised(t).type = "RuntimeError"
                 /\ _connector'[thread[t].self] = Null
                 /\ _lock' = Null
         /\ (thread[t].pc = "gc_test" /\ thread'[t].pc = "gc_return")
              => is_authenticated(_connector[thread[t].self])
         /\ (_lock' = Null /\ _factory' # Null /\ _connector'[_factory'] # Null)
              => connectors'[_connector'[_factory']]
                     \in {"authenticated", "expired", "interrupted"}]_vars

\* After the authentication of the first connector failed with RuntimeError,
\* another call of get_gmail_connector authenticated a second connector and
\* returned it.
OnlyAuthenticatedConnectorsWitness ==
    \E t1 \in Threads, t2 \in Threads :
        /\ thread[t1].op = "get_gmail_connector"
        /\ thread[t1].pc = "done"
        /\ thread[t1].raised.type = "RuntimeError"
        /\ thread[t2].pc = "done"
        /\ thread[t2].result = 2
        /\ connectors = <<"failed", "authenticated">>

\* The threads inside the with block of get_connector.
InGetConnector ==
    {t \in Threads : thread[t].pc \in {"gc_test", "gc_create", "gc_authenticate",
                                       "gc_authenticating", "gc_return"}}
\* Every call made so far is get_gmail_connector(force_recreate=False), and
\* every authentication has succeeded and its credentials are still valid.
FirstUse ==
    /\ \A t \in Threads :
           \/ thread[t].op = "none"
           \/ /\ thread[t].op = "get_gmail_connector"
              /\ ~thread[t].force_recreate
              /\ thread[t].raised.type = "none"
    /\ \A c \in 1..Len(connectors) :
           connectors[c] \in {"created", "authenticating", "authenticated"}

\* C26: of the threads that call get_gmail_connector at the same time, at
\* most one is creating or authenticating a connector at any time; and when
\* no caller forces a new connector, the authentication succeeds and its
\* credentials stay valid, one connector is created and authenticated, and
\* every caller gets that connector.
OneAuthentication ==
    /\ Cardinality(InGetConnector) <= 1
    /\ (_lock = Null) => InGetConnector = {}
    /\ FirstUse
         => /\ Len(connectors) <= 1
            /\ \A t \in Threads :
                   thread[t].pc = "done"
                     => thread[t].result = 1 /\ connectors = <<"authenticated">>

\* Two threads that called get_gmail_connector() before there was a factory
\* hold the same connector, the only one created.
OneAuthenticationWitness ==
    /\ FirstUse
    /\ \A t \in Threads : thread[t].pc = "done" /\ thread[t].result = 1
    /\ connectors = <<"authenticated">>

\* The log of the call that returns in this step has the record msg.
Logged(msg) == \E i \in 1..Len(log') : log'[i].msg = msg
\* The credentials that decrypt_token gave the authenticate call that
\* returns in this step, as line 60 unpickles them (none: it gave no token,
\* or bytes that are no pickle).
LoadedCreds ==
    LET dt == Decrypt("decrypt_token", fs, password').result IN
    IF /\ Logged("loading existing encrypted token")
       /\ dt # None
       /\ pickle_loads(dt[1]).exc = "none"
    THEN {[pickle_loads(dt[1]).val EXCEPT !.expired = @ \/ ret'.elapsed]}
    ELSE {}
\* The files but for the one at the temp path.
Artifacts(f) == [p \in AllPaths \ {TempFile} |-> f[p]]

\* C27: authenticate calls create_temp_credentials_file, and the temp file
\* comes to exist, only when decrypt_token gave it no credentials that are
\* valid or can be refreshed; when the credentials of the decrypted token
\* are valid, authenticate returns True, creates no temp file and writes no
\* artifact.
PlaintextOnlyWhenNeeded ==
    [][AuthenticateStep =>
         /\ \A creds \in LoadedCreds :
                (Valid(creds) \/ creds.refresh_token)
                  => /\ ~Logged("using encrypted credentials for OAuth flow")
                     /\ ~ret'.materialized
                     /\ fs'[TempFile].exists => fs'[TempFile] = fs[TempFile]
         /\ \A creds \in LoadedCreds :
                Valid(creds)
                  => /\ ret'.result = "True"
                     /\ ret'.credentials = Some(creds)
                     /\ Artifacts(fs') = Artifacts(fs)]_vars

\* An authenticate call found a valid token sealed under its password: it
\* returned True and left the files as they were, with no temp file.
PlaintextOnlyWhenNeededWitness ==
    /\ Returned("authenticate")
    /\ ret.result = "True"
    /\ ~ret.materialized
    /\ ~ret.elapsed
    /\ ~fs[TempFile].exists
    /\ \E i \in 1..Len(log) : log[i].msg = "loading existing encrypted token"
    /\ \A i \in 1..Len(log) : log[i].msg # "refreshing expired credentials"

\* The authenticate call returned from saved a token: it had run the OAuth
\* flow or refreshed the credentials.
SavedToken ==
    \E i \in 1..Len(log) : log[i].msg = "saving encrypted token"

\* C28: whenever authenticate has returned True after the OAuth flow or
\* after refreshing the credentials, decrypt_token under the session
\* password gives the pickle of exactly the credentials it ended with.
TokenSavedOnSuccess ==
    (Returned("authenticate") /\ ret.result = "True" /\ SavedToken)
    => Decrypt("decrypt_token", fs, password).result
           = Some(Pickle(ret.credentials[1]))

\* The authenticate call that returns in this step returned False, and its
\* session password opens neither the token artifact nor the credentials
\* artifact.
FailedAuthentication ==
    /\ AuthenticateStep
    /\ ret'.result = "False"
    /\ password' # NoneVal
    /\ Decrypt("decrypt_token", fs, password').result = None
    /\ Decrypt("decrypt_credentials", fs, password').result = None

TempFilesUndisturbed ==
    /\ \A t \in Threads :
           manager[t].pc = "flow"
             => /\ fs[TempFile].exists
                /\ fs[TempFile].data = manager[t].secrets
    /\ (\A t \in Threads : manager[t].pc = "done") => ~fs[TempFile].exists

====
